---------------------------- MODULE Spec2Model ----------------------------
(***************************************************************************)
(* FanControlProject: the FanController (fan_control.cpp, kept in          *)
(* src/README.md from line 48 on), the winring_wrapper.dll it loads        *)
(* (src/winring_wrapper.cpp) and the embedded controller behind the        *)
(* index/data port pair 0x4E/0x4F.                                         *)
(*                                                                         *)
(* Pointers and handles are modelled by BOOLEAN (TRUE = non-null).         *)
(* Error messages are modelled by their fixed text; the numbers the code   *)
(* appends to some of them (error code, status, index) are left out.       *)
(***************************************************************************)
EXTENDS Integers, Sequences, FiniteSets, TLC

VARIABLES
    fc,          \* the FanController object (fan_control.h private members)
    wr,          \* the globals of winring_wrapper.dll
    proc,        \* the process: library reference counts, driver state
    ec,          \* the embedded controller behind ports 0x4E / 0x4F
    trace,       \* port calls the last operation made through pReadPort / pWritePort
    calls,       \* library / capability calls the last operation made
    stale,       \* a call went through a pointer into an unloaded library
    lastOp,      \* the public operation that ran last
    ret,         \* what it returned
    statusData,  \* the caller's FanStatusData (out-parameter of readStatus)
    configData,  \* the FanConfigData handed to the last writeConfig
    ecAddr,      \* the EC address of the last direct_ec_read / direct_ec_write
    ecData,      \* the byte that access read or wrote
    ecBuffer,    \* the bytes the last direct_ec_read_array returned or
                 \* direct_ec_write_array was given (ecAddr is its base)
    threads,     \* the threads inside readStatus / writeConfig: how far each is
    reader,      \* a direct_ec_read_array under way beside another agent
    gui,         \* the curve editor of main(): what its widgets hold
    wrapperUse,  \* what the wrapper did with the driver since DeinitWinRing0
    call         \* a readStatus / writeConfig under way, port call by port call

vars ==
    <<fc, wr, proc, ec, trace, calls, stale, lastOp, ret, statusData, configData,
      ecAddr, ecData, ecBuffer, threads, reader, gui, wrapperUse,
      call>>

----------------------------------------------------------------------------
(* Bounds of the model *)

\* Reference counts of WinRing0x64.dll above this are not explored.
MaxDriverRef == 2

----------------------------------------------------------------------------
(* Constants of fan_control.cpp *)

EC_ADDR_PORT == 78      \* 0x4E
EC_DATA_PORT == 79      \* 0x4F

ECHIPID1 == 8192        \* 0x2000
ECHIPID2 == 8193        \* 0x2001
ECHIPVER == 8194        \* 0x2002
FW_VER == 49863         \* 0xC2C7
FAN_CUR_POINT == 50484  \* 0xC534
FAN1_BASE == 50496      \* 0xC540
FAN2_BASE == 50512      \* 0xC550
FAN_ACC_BASE == 50528   \* 0xC560
FAN_DEC_BASE == 50544   \* 0xC570
CPU_TEMP == 50560       \* 0xC580
CPU_TEMP_HYST == 50576  \* 0xC590
GPU_TEMP == 50592       \* 0xC5A0
GPU_TEMP_HYST == 50608  \* 0xC5B0
VRM_TEMP == 50624       \* 0xC5C0
VRM_TEMP_HYST == 50640  \* 0xC5D0
FAN1_TARGET_CURVE_VAL == 50684  \* 0xC5FC
FAN2_TARGET_CURVE_VAL == 50685  \* 0xC5FD
FAN1_TARGET_DUTY == FAN1_TARGET_CURVE_VAL - 24  \* 0xC5FC - 0x18
FAN2_TARGET_DUTY == FAN2_TARGET_CURVE_VAL - 24  \* 0xC5FD - 0x18
FAN1_CUR_ACC == 50140   \* 0xC3DC
FAN1_CUR_DEC == 50141   \* 0xC3DD
FAN2_CUR_ACC == 50142   \* 0xC3DE
FAN2_CUR_DEC == 50143   \* 0xC3DF
FAN1_RPM_LSB == 50656   \* 0xC5E0
FAN1_RPM_MSB == 50657   \* 0xC5E1
FAN2_RPM_LSB == 50658   \* 0xC5E2
FAN2_RPM_MSB == 50659   \* 0xC5E3

\* static const uint16_t of class FanController
MAX_FAN1_RPM == 5200
MAX_FAN2_RPM == 5000

\* The size every table of FanStatusData / FanConfigData is constructed with
\* and writeConfig insists on.
TableSize == 10

U16(x) == x % 65536

\* The ten tables of FanStatusData / FanConfigData.
TableNames ==
    {"fan1_curve", "fan2_curve", "acc_time", "dec_time",
     "cpu_lower_temp", "cpu_upper_temp", "gpu_lower_temp", "gpu_upper_temp",
     "vrm_lower_temp", "vrm_upper_temp"}

\* vector<uint8_t>(n, 0)
ZeroVec(n) == [i \in 1..n |-> 0]

\* FanConfigData(): ten tables of ten zeros.
FanConfigData_ctor == [t \in TableNames |-> ZeroVec(TableSize)]

\* FanStatusData(): scalars zero, ten tables of ten zeros.
FanStatusData_ctor ==
    [fan1_speed |-> 0, fan2_speed |-> 0, fan1_percent |-> 0, fan2_percent |-> 0,
     tables |-> [t \in TableNames |-> ZeroVec(TableSize)],
     chip_id1 |-> 0, chip_id2 |-> 0, chip_ver |-> 0, fw_ver |-> 0,
     fan1_target_duty |-> 0, fan2_target_duty |-> 0,
     fan1_target_curve_val |-> 0, fan2_target_curve_val |-> 0,
     fan_cur_point |-> 0]

----------------------------------------------------------------------------
(* Error messages (the fixed part of each) *)

ErrLoadWrapper == "Could not load winring_wrapper.dll."
ErrSymbols == "Could not get one or more function addresses from wrapper DLL."
ErrLoadWinRing0 == "LoadWinRing0() via wrapper failed."
ErrInitWinRing0 == "InitWinRing0() via wrapper failed."
ErrReadNotInit == "WinRing0 not initialized, cannot read status."
ErrWriteNotInit == "WinRing0 not initialized, cannot write config."
ErrInvalidConfig == "Invalid configuration data: All arrays must have size 10."
WarnAccIndex == "Warning: Invalid ACC_time target index read from EC"
WarnDecIndex == "Warning: Invalid DEC_time target index read from EC"

----------------------------------------------------------------------------
(* The embedded controller: a byte store behind the index/data protocol.   *)
(* Writing 0x2E to the address port and a number to the data port selects  *)
(* an internal register; writing 0x2F to the address port routes the data  *)
(* port to the selected register: 0x11 = address high, 0x10 = address low, *)
(* 0x12 = the byte of EC memory at that address.  Memory is kept sparse:   *)
(* it maps the addresses that hold a byte other than 0 to that byte.       *)

MemGet(mem, a) == IF a \in DOMAIN mem THEN mem[a] ELSE 0

MemSet(mem, a, v) ==
    IF v # 0 THEN (a :> v) @@ mem
    ELSE IF a \in DOMAIN mem THEN [x \in (DOMAIN mem) \ {a} |-> mem[x]] @@ <<>>
    ELSE mem

EcAddress(e) == e.hi * 256 + e.lo

EcPortWrite(e, port, v) ==
    IF port = 78 THEN [e EXCEPT !.sel = v]
    ELSE IF port # 79 THEN e
    ELSE IF e.sel = 46 THEN [e EXCEPT !.reg = v]
    ELSE IF e.sel # 47 THEN e
    ELSE IF e.reg = 17 THEN [e EXCEPT !.hi = v]
    ELSE IF e.reg = 16 THEN [e EXCEPT !.lo = v]
    ELSE IF e.reg = 18 THEN [e EXCEPT !.mem = MemSet(@, EcAddress(e), v)]
    ELSE e

EcPortRead(e, port) ==
    IF port = 79 /\ e.sel = 47 /\ e.reg = 18 THEN MemGet(e.mem, EcAddress(e))
    ELSE IF port = 79 /\ e.sel = 47 /\ e.reg = 17 THEN e.hi
    ELSE IF port = 79 /\ e.sel = 47 /\ e.reg = 16 THEN e.lo
    ELSE 0

----------------------------------------------------------------------------
(* The world an operation runs in: the state variables as one record, with *)
(* the logs of the operation under way.                                    *)

World ==
    [fc |-> fc, wr |-> wr, proc |-> proc, ec |-> ec,
     trace |-> <<>>, calls |-> <<>>, stale |-> stale]

Log(w, c) == [w EXCEPT !.calls = Append(@, c)]

\* A call through a pointer into winring_wrapper.dll / WinRing0x64.dll.
ViaWrapper(w) == IF w.proc.wrapperRef = 0 THEN [w EXCEPT !.stale = TRUE] ELSE w
ViaDriver(w) == IF w.proc.driverRef = 0 THEN [w EXCEPT !.stale = TRUE] ELSE w

----------------------------------------------------------------------------
(* winring_wrapper.cpp *)

\* The globals as the loader initializes them when the DLL is mapped.
WrapperGlobals ==
    [hWinRing0 |-> FALSE,
     InitializeOlsFunc |-> FALSE, DeinitializeOlsFunc |-> FALSE,
     GetDllStatusFunc |-> FALSE, ReadIoPortByteFunc |-> FALSE,
     WriteIoPortByteFunc |-> FALSE,
     winRingLoaded |-> FALSE, winRingInitialized |-> FALSE,
     lastLoadError |-> FALSE]

DriverSymbols ==
    {"InitializeOls", "DeinitializeOls", "GetDllStatus", "ReadIoPortByte",
     "WriteIoPortByte"}

\* LoadWinRing0(): drvOk = LoadLibraryW finds WinRing0x64.dll, drvSyms = the
\* symbols GetProcAddress finds in it.
LoadWinRing0(w0, drvOk, drvSyms) ==
    LET w == Log(w0, "LoadWinRing0") IN
    IF w.wr.winRingLoaded THEN [w |-> w, ret |-> TRUE]
    ELSE
      LET w1 == Log([w EXCEPT !.wr.lastLoadError = FALSE], "LoadLibraryW") IN
      IF ~drvOk
      THEN [w |-> [w1 EXCEPT !.wr.hWinRing0 = FALSE, !.wr.lastLoadError = TRUE],
            ret |-> FALSE]
      ELSE
        LET w2 == [w1 EXCEPT
                     !.proc.driverRef = @ + 1,
                     !.wr.hWinRing0 = TRUE,
                     !.wr.InitializeOlsFunc = "InitializeOls" \in drvSyms,
                     !.wr.DeinitializeOlsFunc = "DeinitializeOls" \in drvSyms,
                     !.wr.GetDllStatusFunc = "GetDllStatus" \in drvSyms,
                     !.wr.ReadIoPortByteFunc = "ReadIoPortByte" \in drvSyms,
                     !.wr.WriteIoPortByteFunc = "WriteIoPortByte" \in drvSyms]
        IN
        IF drvSyms # DriverSymbols
        THEN [w |-> Log([w2 EXCEPT !.wr.lastLoadError = TRUE,
                                   !.proc.driverRef = @ - 1,
                                   !.wr.hWinRing0 = FALSE], "FreeLibrary(WinRing0)"),
              ret |-> FALSE]
        ELSE [w |-> [w2 EXCEPT !.wr.winRingLoaded = TRUE], ret |-> TRUE]

\* An InitWinRing0() without its already-initialized check.
InitWinRing0_always(w0, olsOk) ==
    LET w == Log(w0, "InitWinRing0") IN
    IF ~w.wr.winRingLoaded THEN [w |-> w, ret |-> FALSE]
    ELSE
      LET w1 == Log(ViaDriver(w), "InitializeOls") IN
      IF olsOk
      THEN [w |-> [w1 EXCEPT !.proc.olsOpen = TRUE, !.wr.winRingInitialized = TRUE],
            ret |-> TRUE]
      ELSE [w |-> w1, ret |-> FALSE]

\* InitWinRing0(): olsOk = the driver's InitializeOls succeeds.
InitWinRing0(w0, olsOk) ==
    LET w == Log(w0, "InitWinRing0") IN
    IF ~w.wr.winRingLoaded THEN [w |-> w, ret |-> FALSE]
    ELSE IF w.wr.winRingInitialized THEN [w |-> w, ret |-> TRUE]
    ELSE
      LET w1 == Log(ViaDriver(w), "InitializeOls") IN
      IF olsOk
      THEN [w |-> [w1 EXCEPT !.proc.olsOpen = TRUE, !.wr.winRingInitialized = TRUE],
            ret |-> TRUE]
      ELSE [w |-> w1, ret |-> FALSE]

\* DeinitWinRing0()
DeinitWinRing0(w0) ==
    LET w == Log(w0, "DeinitWinRing0")
        w1 == IF w.wr.winRingInitialized /\ w.wr.DeinitializeOlsFunc
              THEN [Log(ViaDriver(w), "DeinitializeOls") EXCEPT !.proc.olsOpen = FALSE]
              ELSE w
        w2 == IF w1.wr.hWinRing0
              THEN [Log(ViaDriver(w1), "FreeLibrary(WinRing0)") EXCEPT
                      !.proc.driverRef = IF @ > 0 THEN @ - 1 ELSE 0]
              ELSE w1
    IN [w2 EXCEPT !.wr = WrapperGlobals]

\* A ReadPort() that calls the driver whatever the wrapper's state.
ReadPort_unguarded(w, port) == [w |-> ViaDriver(w), val |-> EcPortRead(w.ec, port)]

\* ReadPort(port): the byte read, and the world after it.
ReadPort(w, port) ==
    IF ~w.wr.winRingInitialized \/ ~w.wr.ReadIoPortByteFunc
    THEN [w |-> w, val |-> 0]
    ELSE [w |-> ViaDriver(w), val |-> EcPortRead(w.ec, port)]

\* WritePort(port, value)
WritePort(w, port, value) ==
    IF ~w.wr.winRingInitialized \/ ~w.wr.WriteIoPortByteFunc
    THEN w
    ELSE [ViaDriver(w) EXCEPT !.ec = EcPortWrite(@, port, value)]

\* GetStatus(): only the calls it makes; its value ends up in an error text.
GetStatus(w0) ==
    LET w == Log(w0, "GetStatus") IN
    IF ~w.wr.winRingLoaded /\ w.wr.lastLoadError THEN w
    ELSE IF w.wr.GetDllStatusFunc THEN Log(ViaDriver(w), "GetDllStatus")
    ELSE w

----------------------------------------------------------------------------
(* The process loader, as fan_control.cpp uses it *)

\* A LoadLibraryA that asks the loader a second time when the DLL is not found.
LoadLibraryA_again(w0, ok) ==
    LET w == Log(w0, "LoadLibraryA") IN
    IF ~ok THEN [Log(w, "LoadLibraryA") EXCEPT !.fc.hWinRing0Wrapper = FALSE]
    ELSE [w EXCEPT !.fc.hWinRing0Wrapper = TRUE,
                   !.wr = IF w.proc.wrapperRef = 0 THEN WrapperGlobals ELSE @,
                   !.proc.wrapperRef = @ + 1]

\* LoadLibraryA("winring_wrapper.dll"): ok = the DLL and what it depends on
\* are found.  A first mapping runs the DLL's initializers.
LoadLibraryA(w0, ok) ==
    LET w == Log(w0, "LoadLibraryA") IN
    IF ~ok THEN [w EXCEPT !.fc.hWinRing0Wrapper = FALSE]
    ELSE [w EXCEPT !.fc.hWinRing0Wrapper = TRUE,
                   !.wr = IF w.proc.wrapperRef = 0 THEN WrapperGlobals ELSE @,
                   !.proc.wrapperRef = @ + 1]

\* FreeLibrary((HMODULE)hWinRing0Wrapper): the last reference unmaps the DLL
\* and its globals with it; DllMain releases nothing.
FreeLibrary(w0) ==
    LET w == Log(w0, "FreeLibrary(wrapper)")
        n == IF w.proc.wrapperRef > 0 THEN w.proc.wrapperRef - 1 ELSE 0
    IN [w EXCEPT !.proc.wrapperRef = n,
                 !.wr = IF n = 0 THEN WrapperGlobals ELSE @]

WrapperSymbols ==
    {"LoadWinRing0", "InitWinRing0", "ReadPort", "WritePort", "GetStatus",
     "DeinitWinRing0"}

----------------------------------------------------------------------------
(* fan_control.cpp: FanController *)

\* FanController::FanController() and the member initializers of fan_control.h
FanController_ctor ==
    [hWinRing0Wrapper |-> FALSE,
     pLoadWinRing0 |-> FALSE, pInitWinRing0 |-> FALSE, pReadPort |-> FALSE,
     pWritePort |-> FALSE, pGetStatus |-> FALSE, pDeinitWinRing0 |-> FALSE,
     winring_init_ok |-> FALSE, lastError |-> ""]

\* A setError() that keeps the first message until it is read.
setError_first(w, errorMsg) ==
    IF w.fc.lastError = "" THEN [w EXCEPT !.fc.lastError = errorMsg] ELSE w

setError(w, errorMsg) == [w EXCEPT !.fc.lastError = errorMsg]

\* What one initialize() call meets: libOk (LoadLibraryA succeeds), syms (the
\* wrapper symbols GetProcAddress finds), drvOk / drvSyms (the same for
\* WinRing0x64.dll inside LoadWinRing0), olsOk (InitializeOls succeeds).
\* initialize() past its already-initialized check.
initialize_acquire(w, in) ==
    LET w1 == LoadLibraryA(setError(w, ""), in.libOk) IN
    IF ~w1.fc.hWinRing0Wrapper
    THEN [w |-> setError(w1, ErrLoadWrapper), ret |-> FALSE]
    ELSE
      LET w2 == [Log(w1, "GetProcAddress") EXCEPT
                   !.fc.pLoadWinRing0 = "LoadWinRing0" \in in.syms,
                   !.fc.pInitWinRing0 = "InitWinRing0" \in in.syms,
                   !.fc.pReadPort = "ReadPort" \in in.syms,
                   !.fc.pWritePort = "WritePort" \in in.syms,
                   !.fc.pGetStatus = "GetStatus" \in in.syms,
                   !.fc.pDeinitWinRing0 = "DeinitWinRing0" \in in.syms]
      IN
      IF in.syms # WrapperSymbols
      THEN [w |-> [FreeLibrary(setError(w2, ErrSymbols)) EXCEPT
                     !.fc.hWinRing0Wrapper = FALSE],
            ret |-> FALSE]
      ELSE
        LET r3 == LoadWinRing0(ViaWrapper(w2), in.drvOk, in.drvSyms) IN
        IF ~r3.ret
        THEN [w |-> [FreeLibrary(setError(r3.w, ErrLoadWinRing0)) EXCEPT
                       !.fc.hWinRing0Wrapper = FALSE],
              ret |-> FALSE]
        ELSE
          LET r4 == InitWinRing0(ViaWrapper(r3.w), in.olsOk) IN
          IF ~r4.ret
          THEN LET w5 == IF r4.w.fc.pGetStatus
                         THEN GetStatus(ViaWrapper(r4.w)) ELSE r4.w
               IN [w |-> [FreeLibrary(setError(w5, ErrInitWinRing0)) EXCEPT
                            !.fc.hWinRing0Wrapper = FALSE],
                   ret |-> FALSE]
          ELSE [w |-> [r4.w EXCEPT !.fc.winring_init_ok = TRUE], ret |-> TRUE]

\* A second initialize() that skips the already-initialized check.
initialize_unchecked(w, in) == initialize_acquire(w, in)

initialize(w, in) ==
    IF w.fc.winring_init_ok THEN [w |-> w, ret |-> TRUE]
    ELSE initialize_acquire(w, in)

\* deinitialize() that leaves winring_init_ok as it was.
deinitialize_keepsFlag(w) ==
    LET w1 == IF w.fc.hWinRing0Wrapper /\ w.fc.winring_init_ok /\ w.fc.pDeinitWinRing0
              THEN DeinitWinRing0(ViaWrapper(w))
              ELSE w
        w2 == IF w1.fc.hWinRing0Wrapper
              THEN [FreeLibrary(w1) EXCEPT !.fc.hWinRing0Wrapper = FALSE]
              ELSE w1
    IN [w2 EXCEPT !.fc.pLoadWinRing0 = FALSE, !.fc.pInitWinRing0 = FALSE,
                  !.fc.pReadPort = FALSE, !.fc.pWritePort = FALSE,
                  !.fc.pGetStatus = FALSE, !.fc.pDeinitWinRing0 = FALSE]

\* deinitialize() that resets the flag and the handle but not the pointers.
deinitialize_keepsPointers(w) ==
    LET w1 == IF w.fc.hWinRing0Wrapper /\ w.fc.winring_init_ok /\ w.fc.pDeinitWinRing0
              THEN DeinitWinRing0(ViaWrapper(w))
              ELSE w
        w2 == IF w1.fc.hWinRing0Wrapper
              THEN [FreeLibrary(w1) EXCEPT !.fc.hWinRing0Wrapper = FALSE]
              ELSE w1
    IN [w2 EXCEPT !.fc.winring_init_ok = FALSE]

\* deinitialize() that calls pDeinitWinRing0 whenever the pointer is set.
deinitialize_unguarded(w) ==
    LET w1 == IF w.fc.pDeinitWinRing0
              THEN DeinitWinRing0(ViaWrapper(w))
              ELSE w
        w2 == IF w1.fc.hWinRing0Wrapper
              THEN [FreeLibrary(w1) EXCEPT !.fc.hWinRing0Wrapper = FALSE]
              ELSE w1
    IN [w2 EXCEPT !.fc.winring_init_ok = FALSE,
                  !.fc.pLoadWinRing0 = FALSE, !.fc.pInitWinRing0 = FALSE,
                  !.fc.pReadPort = FALSE, !.fc.pWritePort = FALSE,
                  !.fc.pGetStatus = FALSE, !.fc.pDeinitWinRing0 = FALSE]

deinitialize(w) ==
    LET w1 == IF w.fc.hWinRing0Wrapper /\ w.fc.winring_init_ok /\ w.fc.pDeinitWinRing0
              THEN DeinitWinRing0(ViaWrapper(w))
              ELSE w
        w2 == IF w1.fc.hWinRing0Wrapper
              THEN [FreeLibrary(w1) EXCEPT !.fc.hWinRing0Wrapper = FALSE]
              ELSE w1
    IN [w2 EXCEPT !.fc.winring_init_ok = FALSE,
                  !.fc.pLoadWinRing0 = FALSE, !.fc.pInitWinRing0 = FALSE,
                  !.fc.pReadPort = FALSE, !.fc.pWritePort = FALSE,
                  !.fc.pGetStatus = FALSE, !.fc.pDeinitWinRing0 = FALSE]

isInitialized == fc.winring_init_ok

getLastError == fc.lastError

----------------------------------------------------------------------------
(* EC access functions (private) *)

\* A read_io_port_byte() that reads the port behind the one asked for.
read_io_port_byte_next(w, port) ==
    IF ~w.fc.winring_init_ok \/ ~w.fc.pReadPort
    THEN [w |-> w, val |-> 0]
    ELSE LET r == ReadPort(ViaWrapper(w), port + 1)
         IN [w |-> [r.w EXCEPT !.trace = Append(@, <<"R", port + 1, r.val>>)],
             val |-> r.val]

\* read_io_port_byte(port): the byte read, and the world after it.
read_io_port_byte(w, port) ==
    IF ~w.fc.winring_init_ok \/ ~w.fc.pReadPort
    THEN [w |-> w, val |-> 0]
    ELSE LET r == ReadPort(ViaWrapper(w), port)
         IN [w |-> [r.w EXCEPT !.trace = Append(@, <<"R", port, r.val>>)],
             val |-> r.val]

write_io_port_byte(w, port, value) ==
    IF ~w.fc.winring_init_ok \/ ~w.fc.pWritePort
    THEN w
    ELSE [WritePort(ViaWrapper(w), port, value) EXCEPT
            !.trace = Append(@, <<"W", port, value>>)]

\* The statements of a function body run one after the other.  InOrder is
\* given the world (or result) after each statement, first to last, and is the
\* last of them; TLC evaluates the elements of a tuple in that order.
InOrder(steps) == steps[Len(steps)]

\* The world after the port writes ops[lo] .. ops[hi] of a list of
\* <<port, value>> pairs, made in that order: the first half, then the rest.
RECURSIVE WriteRange(_, _, _, _)
WriteRange(w, ops, lo, hi) ==
    IF lo = hi THEN write_io_port_byte(w, ops[lo][1], ops[lo][2])
    ELSE LET mid == (lo + hi) \div 2
             half == WriteRange(w, ops, lo, mid)
         IN InOrder(<<half, WriteRange(half, ops, mid + 1, hi)>>)

\* WriteAll() that stops one port write short.
WriteAll_partial(w, ops) == WriteRange(w, ops, 1, Len(ops) - 1)

WriteAll(w, ops) == WriteRange(w, ops, 1, Len(ops))

\* direct_ec_read() that sends the two halves of the address the other way
\* round.
direct_ec_read_swapped(w, addr) ==
    read_io_port_byte(
        WriteAll(w, << <<EC_ADDR_PORT, 46>>, <<EC_DATA_PORT, 17>>,
                   <<EC_ADDR_PORT, 47>>, <<EC_DATA_PORT, addr % 256>>,
                   <<EC_ADDR_PORT, 46>>, <<EC_DATA_PORT, 16>>,
                   <<EC_ADDR_PORT, 47>>, <<EC_DATA_PORT, (addr \div 256) % 256>>,
                   <<EC_ADDR_PORT, 46>>, <<EC_DATA_PORT, 18>>,
                   <<EC_ADDR_PORT, 47>> >>),
        EC_DATA_PORT)

\* direct_ec_read() that ends with a write of 0 to the data port, not with a
\* read of it.
direct_ec_read_clearing(w, addr) ==
    [w |-> WriteAll(w, << <<EC_ADDR_PORT, 46>>, <<EC_DATA_PORT, 17>>,
                   <<EC_ADDR_PORT, 47>>, <<EC_DATA_PORT, (addr \div 256) % 256>>,
                   <<EC_ADDR_PORT, 46>>, <<EC_DATA_PORT, 16>>,
                   <<EC_ADDR_PORT, 47>>, <<EC_DATA_PORT, addr % 256>>,
                   <<EC_ADDR_PORT, 46>>, <<EC_DATA_PORT, 18>>,
                   <<EC_ADDR_PORT, 47>>, <<EC_DATA_PORT, 0>> >>),
     val |-> 0]

direct_ec_read(w, addr) ==
    read_io_port_byte(
        WriteAll(w, << <<EC_ADDR_PORT, 46>>, <<EC_DATA_PORT, 17>>,
                   <<EC_ADDR_PORT, 47>>, <<EC_DATA_PORT, (addr \div 256) % 256>>,
                   <<EC_ADDR_PORT, 46>>, <<EC_DATA_PORT, 16>>,
                   <<EC_ADDR_PORT, 47>>, <<EC_DATA_PORT, addr % 256>>,
                   <<EC_ADDR_PORT, 46>>, <<EC_DATA_PORT, 18>>,
                   <<EC_ADDR_PORT, 47>> >>),
        EC_DATA_PORT)

\* direct_ec_write() that sends the two halves of the address the other way
\* round.
direct_ec_write_swapped(w, addr, data) ==
    write_io_port_byte(
        WriteAll(w, << <<EC_ADDR_PORT, 46>>, <<EC_DATA_PORT, 17>>,
                   <<EC_ADDR_PORT, 47>>, <<EC_DATA_PORT, addr % 256>>,
                   <<EC_ADDR_PORT, 46>>, <<EC_DATA_PORT, 16>>,
                   <<EC_ADDR_PORT, 47>>, <<EC_DATA_PORT, (addr \div 256) % 256>>,
                   <<EC_ADDR_PORT, 46>>, <<EC_DATA_PORT, 18>>,
                   <<EC_ADDR_PORT, 47>> >>),
        EC_DATA_PORT, data)

direct_ec_write(w, addr, data) ==
    write_io_port_byte(
        WriteAll(w, << <<EC_ADDR_PORT, 46>>, <<EC_DATA_PORT, 17>>,
                   <<EC_ADDR_PORT, 47>>, <<EC_DATA_PORT, (addr \div 256) % 256>>,
                   <<EC_ADDR_PORT, 46>>, <<EC_DATA_PORT, 16>>,
                   <<EC_ADDR_PORT, 47>>, <<EC_DATA_PORT, addr % 256>>,
                   <<EC_ADDR_PORT, 46>>, <<EC_DATA_PORT, 18>>,
                   <<EC_ADDR_PORT, 47>> >>),
        EC_DATA_PORT, data)

\* buffer[i] = value that always lands in buffer[0].
Store_first(st, i, r) == [val |-> [st.val EXCEPT ![1] = r.val], w |-> r.w]

\* buffer[i] = value, with the world the read of value left.
Store(st, i, r) == [val |-> [st.val EXCEPT ![i + 1] = r.val], w |-> r.w]

\* Iterations i = lo .. hi of the loop of direct_ec_read_array, on the buffer
\* and the world st: the first half of them, then the rest.
RECURSIVE ReadArrayLoop(_, _, _, _)
ReadArrayLoop(st, addr_base, lo, hi) ==
    IF lo > hi THEN st
    ELSE IF lo = hi
    THEN Store(st, lo, direct_ec_read(st.w, U16(addr_base + U16(lo))))
    ELSE LET mid == (lo + hi) \div 2
             half == ReadArrayLoop(st, addr_base, lo, mid)
         IN InOrder(<<half, ReadArrayLoop(half, addr_base, mid + 1, hi)>>)

\* direct_ec_read_array() that starts one register too far.
direct_ec_read_array_shifted(w, addr_base, size) ==
    ReadArrayLoop([val |-> ZeroVec(size), w |-> w], U16(addr_base + 1), 0, size - 1)

\* direct_ec_read_array() whose buffer is one element longer than size.
direct_ec_read_array_longer(w, addr_base, size) ==
    ReadArrayLoop([val |-> ZeroVec(size + 1), w |-> w], addr_base, 0, size - 1)

direct_ec_read_array(w, addr_base, size) ==
    ReadArrayLoop([val |-> ZeroVec(size), w |-> w], addr_base, 0, size - 1)

\* Iterations i = lo .. hi of the loop of direct_ec_write_array: the first
\* half of them, then the rest.
RECURSIVE WriteArrayLoop(_, _, _, _, _)
WriteArrayLoop(w, addr_base, data, lo, hi) ==
    IF lo > hi THEN w
    ELSE IF lo = hi
    THEN direct_ec_write(w, U16(addr_base + U16(lo)), data[lo + 1])
    ELSE LET mid == (lo + hi) \div 2
             half == WriteArrayLoop(w, addr_base, data, lo, mid)
         IN InOrder(<<half, WriteArrayLoop(half, addr_base, data, mid + 1, hi)>>)

\* direct_ec_write_array() whose loop stops one element early.
direct_ec_write_array_short(w, addr_base, data) ==
    IF data = <<>> THEN w
    ELSE WriteArrayLoop(w, addr_base, data, 0, Len(data) - 2)

\* direct_ec_write_array() without its return on empty data: it addresses the
\* base register before it looks at the data.
direct_ec_write_array_eager(w, addr_base, data) ==
    IF data = <<>> THEN direct_ec_write(w, addr_base, 0)
    ELSE WriteArrayLoop(w, addr_base, data, 0, Len(data) - 1)

direct_ec_write_array(w, addr_base, data) ==
    IF data = <<>> THEN w
    ELSE WriteArrayLoop(w, addr_base, data, 0, Len(data) - 1)

----------------------------------------------------------------------------
(* The double arithmetic of readStatus's percentages (IEEE 754 binary64,   *)
(* round to nearest, ties to even).  A positive double is kept as the      *)
(* position lead of its leading binary digit and its 53 significant digits *)
(* as five limbs of 13 digits, least significant first (the fifth limb is  *)
(* the leading digit alone): its value is                                  *)
(* (limbs[1] + limbs[2] * 2^13 + ... + limbs[5] * 2^52) * 2^(lead - 52).   *)

Limb == 8192    \* 2^13

\* The position of the leading binary digit of r / m, for integers
\* 1 <= r < 2^16 and 1 <= m < 2^16.
LeadingDigit(r, m) ==
    CHOOSE p \in -16..15 :
        IF p >= 0
        THEN m * (2 ^ p) <= r /\ r < m * (2 ^ (p + 1))
        ELSE /\ (m + (2 ^ (-p)) - 1) \div (2 ^ (-p)) <= r
             /\ r < (2 * m + (2 ^ (-p)) - 1) \div (2 ^ (-p))

\* The next double above the one with these limbs.
NextUp(lead, limbs) ==
    IF limbs[1] + 1 < Limb THEN [lead |-> lead, limbs |-> [limbs EXCEPT ![1] = @ + 1]]
    ELSE IF limbs[2] + 1 < Limb
    THEN [lead |-> lead, limbs |-> [limbs EXCEPT ![1] = 0, ![2] = @ + 1]]
    ELSE IF limbs[3] + 1 < Limb
    THEN [lead |-> lead, limbs |-> [limbs EXCEPT ![1] = 0, ![2] = 0, ![3] = @ + 1]]
    ELSE IF limbs[4] + 1 < Limb
    THEN [lead |-> lead,
          limbs |-> [limbs EXCEPT ![1] = 0, ![2] = 0, ![3] = 0, ![4] = @ + 1]]
    ELSE [lead |-> lead + 1, limbs |-> <<0, 0, 0, 0, 1>>]

\* Round to nearest, ties to even: half is the first digit dropped, rest tells
\* whether a later dropped digit is 1.
RoundNearestEven(lead, limbs, half, rest) ==
    IF half = 1 /\ (rest \/ limbs[1] % 2 = 1) THEN NextUp(lead, limbs)
    ELSE [lead |-> lead, limbs |-> limbs]

\* Long division of n by d, where d <= n < 2 * d: the leading digit is 1, and
\* each limb is the next 13 digits of the quotient (d * 2^13 stays below
\* 2^31 for the divisors used).
DivideLimbs(lead, n, d) ==
    LET r4 == n - d
        r3 == (r4 * Limb) % d
        r2 == (r3 * Limb) % d
        r1 == (r2 * Limb) % d
        r0 == (r1 * Limb) % d
    IN RoundNearestEven(lead,
                        <<(r1 * Limb) \div d, (r2 * Limb) \div d,
                          (r3 * Limb) \div d, (r4 * Limb) \div d, 1>>,
                        (2 * r0) \div d,
                        (2 * r0) % d # 0)

DivideFrom(r, m, lead) ==
    IF lead >= 0 THEN DivideLimbs(lead, r, m * (2 ^ lead))
    ELSE DivideLimbs(lead, r * (2 ^ (-lead)), m)

\* static_cast<double>(r) / m
DoubleDivide(r, m) == DivideFrom(r, m, LeadingDigit(r, m))

\* limb * 100 + carry for the five limbs, least significant first: what each
\* leaves in place, and the last one whole (100 .. 199).
TimesHundredLimbs(limbs) ==
    LET t0 == limbs[1] * 100
        t1 == limbs[2] * 100 + (t0 \div Limb)
        t2 == limbs[3] * 100 + (t1 \div Limb)
        t3 == limbs[4] * 100 + (t2 \div Limb)
        t4 == limbs[5] * 100 + (t3 \div Limb)
    IN <<t0 % Limb, t1 % Limb, t2 % Limb, t3 % Limb, t4>>

\* The exact product p has 53 + s digits (s = 6 or 7): its s last digits are
\* dropped.
TimesHundredShift(lead, p, s) ==
    RoundNearestEven(lead + s,
                     <<(p[1] \div (2 ^ s)) + (p[2] % (2 ^ s)) * (2 ^ (13 - s)),
                       (p[2] \div (2 ^ s)) + (p[3] % (2 ^ s)) * (2 ^ (13 - s)),
                       (p[3] \div (2 ^ s)) + (p[4] % (2 ^ s)) * (2 ^ (13 - s)),
                       (p[4] \div (2 ^ s)) + (p[5] % (2 ^ s)) * (2 ^ (13 - s)),
                       p[5] \div (2 ^ s)>>,
                     (p[1] \div (2 ^ (s - 1))) % 2,
                     p[1] % (2 ^ (s - 1)) # 0)

TimesHundredOf(lead, p) == TimesHundredShift(lead, p, IF p[5] >= 128 THEN 7 ELSE 6)

\* d * 100.0
DoubleTimesHundred(d) == TimesHundredOf(d.lead, TimesHundredLimbs(d.limbs))

\* static_cast<int>(d): the digits of weight 2^0 and above (the values here
\* stay below 2^14).
DoubleToInt(d) ==
    IF d.lead < 0 THEN 0
    ELSE d.limbs[5] * (2 ^ d.lead) + (d.limbs[4] \div (2 ^ (13 - d.lead)))

\* (MAX > 0) ? static_cast<int>((static_cast<double>(speed) / MAX) * 100.0) : 0
fan_percent(speed, MAX) ==
    IF MAX > 0
    THEN IF speed = 0 THEN 0
         ELSE DoubleToInt(DoubleTimesHundred(DoubleDivide(speed, MAX)))
    ELSE 0

----------------------------------------------------------------------------
(* Status reading and configuration writing (public) *)

\* StatusReads that has the high byte of the fan 1 counter read first.
StatusReads_highFirst ==
    << <<"fan1_high", FAN1_RPM_MSB, 0>>, <<"fan1_low", FAN1_RPM_LSB, 0>>,
       <<"fan2_low", FAN2_RPM_LSB, 0>>, <<"fan2_high", FAN2_RPM_MSB, 0>>,
       <<"fan1_curve", FAN1_BASE, 10>>, <<"fan2_curve", FAN2_BASE, 10>>,
       <<"acc_time", FAN_ACC_BASE, 10>>, <<"dec_time", FAN_DEC_BASE, 10>>,
       <<"cpu_upper_temp", CPU_TEMP, 10>>, <<"cpu_lower_temp", CPU_TEMP_HYST, 10>>,
       <<"gpu_upper_temp", GPU_TEMP, 10>>, <<"gpu_lower_temp", GPU_TEMP_HYST, 10>>,
       <<"vrm_upper_temp", VRM_TEMP, 10>>, <<"vrm_lower_temp", VRM_TEMP_HYST, 10>>,
       <<"chip_id1", ECHIPID1, 0>>, <<"chip_id2", ECHIPID2, 0>>,
       <<"chip_ver", ECHIPVER, 0>>, <<"fw_ver", FW_VER, 0>>,
       <<"fan1_target_duty", FAN1_TARGET_DUTY, 0>>,
       <<"fan2_target_duty", FAN2_TARGET_DUTY, 0>>,
       <<"fan1_target_curve_val", FAN1_TARGET_CURVE_VAL, 0>>,
       <<"fan2_target_curve_val", FAN2_TARGET_CURVE_VAL, 0>>,
       <<"fan_cur_point", FAN_CUR_POINT, 0>> >>

\* The reads of readStatus's try block in source order: the local or field
\* assigned, the register read, and the size handed to direct_ec_read_array
\* (0 for a single direct_ec_read).
StatusReads ==
    << <<"fan1_low", FAN1_RPM_LSB, 0>>, <<"fan1_high", FAN1_RPM_MSB, 0>>,
       <<"fan2_low", FAN2_RPM_LSB, 0>>, <<"fan2_high", FAN2_RPM_MSB, 0>>,
       <<"fan1_curve", FAN1_BASE, 10>>, <<"fan2_curve", FAN2_BASE, 10>>,
       <<"acc_time", FAN_ACC_BASE, 10>>, <<"dec_time", FAN_DEC_BASE, 10>>,
       <<"cpu_upper_temp", CPU_TEMP, 10>>, <<"cpu_lower_temp", CPU_TEMP_HYST, 10>>,
       <<"gpu_upper_temp", GPU_TEMP, 10>>, <<"gpu_lower_temp", GPU_TEMP_HYST, 10>>,
       <<"vrm_upper_temp", VRM_TEMP, 10>>, <<"vrm_lower_temp", VRM_TEMP_HYST, 10>>,
       <<"chip_id1", ECHIPID1, 0>>, <<"chip_id2", ECHIPID2, 0>>,
       <<"chip_ver", ECHIPVER, 0>>, <<"fw_ver", FW_VER, 0>>,
       <<"fan1_target_duty", FAN1_TARGET_DUTY, 0>>,
       <<"fan2_target_duty", FAN2_TARGET_DUTY, 0>>,
       <<"fan1_target_curve_val", FAN1_TARGET_CURVE_VAL, 0>>,
       <<"fan2_target_curve_val", FAN2_TARGET_CURVE_VAL, 0>>,
       <<"fan_cur_point", FAN_CUR_POINT, 0>> >>

\* The locals and fields readStatus has assigned so far, by name: none yet.
NoneRead == [name \in {} |-> 0]

\* name = value, with the world the read of value left.
Assign(st, name, r) == [val |-> (name :> r.val) @@ st.val, w |-> r.w]

\* StatusReadRange() that makes the later reads first.
RECURSIVE StatusReadRange_backwards(_, _, _)
StatusReadRange_backwards(st, lo, hi) ==
    IF lo = hi
    THEN Assign(st, StatusReads[lo][1],
                IF StatusReads[lo][3] = 0
                THEN direct_ec_read(st.w, StatusReads[lo][2])
                ELSE direct_ec_read_array(st.w, StatusReads[lo][2],
                                          StatusReads[lo][3]))
    ELSE LET mid == (lo + hi) \div 2
             half == StatusReadRange_backwards(st, mid + 1, hi)
         IN InOrder(<<half, StatusReadRange_backwards(half, lo, mid)>>)

\* The reads StatusReads[lo] .. StatusReads[hi], made in that order on the
\* values read so far and the world st: the first half, then the rest.
RECURSIVE StatusReadRange(_, _, _)
StatusReadRange(st, lo, hi) ==
    IF lo = hi
    THEN Assign(st, StatusReads[lo][1],
                IF StatusReads[lo][3] = 0
                THEN direct_ec_read(st.w, StatusReads[lo][2])
                ELSE direct_ec_read_array(st.w, StatusReads[lo][2],
                                          StatusReads[lo][3]))
    ELSE LET mid == (lo + hi) \div 2
             half == StatusReadRange(st, lo, mid)
         IN InOrder(<<half, StatusReadRange(half, mid + 1, hi)>>)

\* What readStatus's try block leaves, given what its reads returned.
readStatus_assigned(st) ==
    [sd |-> [fan1_speed |-> U16(st.val["fan1_high"] * 256) + st.val["fan1_low"],
             fan2_speed |-> U16(st.val["fan2_high"] * 256) + st.val["fan2_low"],
             fan1_percent |->
                 fan_percent(U16(st.val["fan1_high"] * 256) + st.val["fan1_low"],
                             MAX_FAN1_RPM),
             fan2_percent |->
                 fan_percent(U16(st.val["fan2_high"] * 256) + st.val["fan2_low"],
                             MAX_FAN2_RPM),
             tables |-> [t \in TableNames |-> st.val[t]],
             chip_id1 |-> st.val["chip_id1"], chip_id2 |-> st.val["chip_id2"],
             chip_ver |-> st.val["chip_ver"], fw_ver |-> st.val["fw_ver"],
             fan1_target_duty |-> st.val["fan1_target_duty"],
             fan2_target_duty |-> st.val["fan2_target_duty"],
             fan1_target_curve_val |-> st.val["fan1_target_curve_val"],
             fan2_target_curve_val |-> st.val["fan2_target_curve_val"],
             fan_cur_point |-> st.val["fan_cur_point"]],
     ret |-> TRUE, w |-> st.w]

\* A readStatus() that took a chip id of 0 for a failed read.
readStatus_try_sentinel(w0, sd) ==
    LET r == readStatus_assigned(
                 StatusReadRange([val |-> NoneRead, w |-> w0], 1, Len(StatusReads)))
    IN IF r.sd.chip_id1 = 0
       THEN [sd |-> sd, ret |-> FALSE, w |-> setError(r.w, "EC read failed")]
       ELSE r

\* readStatus(statusData): what it returns, the world and the caller's
\* statusData after it.  (The percentages are derived from the speeds alone.)
\* readStatus_try is its try block, which never throws.
readStatus_try(w0, sd) ==
    readStatus_assigned(
        StatusReadRange([val |-> NoneRead, w |-> w0], 1, Len(StatusReads)))

\* readStatus() without its initialized check.
readStatus_unchecked(w, sd) == readStatus_try(setError(w, ""), sd)

readStatus(w, sd) ==
    IF ~w.fc.winring_init_ok
    THEN [sd |-> sd, ret |-> FALSE, w |-> setError(w, ErrReadNotInit)]
    ELSE readStatus_try(setError(w, ""), sd)

\* ConfigTableWrites with the upper and the lower CPU temperatures sent to
\* each other's table.
ConfigTableWrites_crossed ==
    << <<FAN1_BASE, "fan1_curve">>, <<FAN2_BASE, "fan2_curve">>,
       <<CPU_TEMP_HYST, "cpu_upper_temp">>, <<GPU_TEMP, "gpu_upper_temp">>,
       <<VRM_TEMP, "vrm_upper_temp">>, <<CPU_TEMP, "cpu_lower_temp">>,
       <<GPU_TEMP_HYST, "gpu_lower_temp">>, <<VRM_TEMP_HYST, "vrm_lower_temp">>,
       <<FAN_ACC_BASE, "acc_time">>, <<FAN_DEC_BASE, "dec_time">> >>

\* The table writes of writeConfig's try block in source order: the base
\* register and the table of the configuration written there.
ConfigTableWrites ==
    << <<FAN1_BASE, "fan1_curve">>, <<FAN2_BASE, "fan2_curve">>,
       <<CPU_TEMP, "cpu_upper_temp">>, <<GPU_TEMP, "gpu_upper_temp">>,
       <<VRM_TEMP, "vrm_upper_temp">>, <<CPU_TEMP_HYST, "cpu_lower_temp">>,
       <<GPU_TEMP_HYST, "gpu_lower_temp">>, <<VRM_TEMP_HYST, "vrm_lower_temp">>,
       <<FAN_ACC_BASE, "acc_time">>, <<FAN_DEC_BASE, "dec_time">> >>

\* The writes ConfigTableWrites[lo] .. ConfigTableWrites[hi], made in that
\* order: the first half, then the rest.
RECURSIVE ConfigWriteRange(_, _, _, _)
ConfigWriteRange(w, cfg, lo, hi) ==
    IF lo = hi
    THEN direct_ec_write_array(w, ConfigTableWrites[lo][1],
                               cfg[ConfigTableWrites[lo][2]])
    ELSE LET mid == (lo + hi) \div 2
             half == ConfigWriteRange(w, cfg, lo, mid)
         IN InOrder(<<half, ConfigWriteRange(half, cfg, mid + 1, hi)>>)

\* direct_ec_write(to, value), value being what a direct_ec_read just
\* returned.
WriteBack(r, to) == InOrder(<<r, direct_ec_write(r.w, to, r.val)>>)

\* A CopyRegister() that copies the other way round.
CopyRegister_back(w, from, to) ==
    InOrder(<<w, WriteBack(direct_ec_read(w, to), from)>>)

\* uint8_t target = direct_ec_read(from); direct_ec_write(to, target);
CopyRegister(w, from, to) ==
    InOrder(<<w, WriteBack(direct_ec_read(w, from), to)>>)

\* SetRate() that takes the first entry of the table, not the one at the
\* index.
SetRate_first(ix, table, fan1, fan2, warning) ==
    InOrder(<<ix,
              [w |-> IF ix.val < Len(table)
                     THEN direct_ec_write(direct_ec_write(ix.w, fan1, table[1]),
                                          fan2, table[1])
                     ELSE setError(ix.w, warning),
               val |-> ix.val]>>)

\* SetRate() that writes both registers whatever the index is (0 when the
\* table has no such entry).
SetRate_always(ix, table, fan1, fan2, warning) ==
    InOrder(<<ix,
              [w |-> direct_ec_write(
                         direct_ec_write(ix.w, fan1,
                             IF ix.val < Len(table) THEN table[ix.val + 1] ELSE 0),
                         fan2,
                         IF ix.val < Len(table) THEN table[ix.val + 1] ELSE 0),
               val |-> ix.val]>>)

\* if (current_idx < table.size()) the table's entry goes to fan1 and fan2,
\* else the warning is recorded; ix is the read of current_idx and the world
\* so far, and stays the index for the statement that follows.
SetRate(ix, table, fan1, fan2, warning) ==
    InOrder(<<ix,
              [w |-> IF ix.val < Len(table)
                     THEN LET f1 == direct_ec_write(ix.w, fan1, table[ix.val + 1])
                          IN InOrder(<<f1, direct_ec_write(f1, fan2,
                                                           table[ix.val + 1])>>)
                     ELSE setError(ix.w, warning),
               val |-> ix.val]>>)

\* The try block of writeConfig, which never throws, statement by statement:
\* the ten tables,
writeConfig_tables(w0, cfg) ==
    ConfigWriteRange(w0, cfg, 1, Len(ConfigTableWrites))

\* writeConfig_targets() that sets the two target duties before it writes
\* the tables.
writeConfig_targets_first(w0, cfg) ==
    writeConfig_tables(
        CopyRegister(
            CopyRegister(w0, FAN1_TARGET_CURVE_VAL, FAN1_TARGET_DUTY),
            FAN2_TARGET_CURVE_VAL, FAN2_TARGET_DUTY),
        cfg)

\* the two target duties, set to the current target curve values,
writeConfig_targets(w0, cfg) ==
    CopyRegister(
        CopyRegister(writeConfig_tables(w0, cfg),
                     FAN1_TARGET_CURVE_VAL, FAN1_TARGET_DUTY),
        FAN2_TARGET_CURVE_VAL, FAN2_TARGET_DUTY)

\* uint8_t current_idx = direct_ec_read(FAN_CUR_POINT);
writeConfig_index(w) == InOrder(<<w, direct_ec_read(w, FAN_CUR_POINT)>>)

\* and the current acceleration and deceleration of both fans.
writeConfig_try(w0, cfg) ==
    [w |-> SetRate(
             SetRate(writeConfig_index(writeConfig_targets(w0, cfg)),
                     cfg.acc_time, FAN1_CUR_ACC, FAN2_CUR_ACC, WarnAccIndex),
             cfg.dec_time, FAN1_CUR_DEC, FAN2_CUR_DEC, WarnDecIndex).w,
     ret |-> TRUE]

\* writeConfig() without its validation of the table sizes.
writeConfig_unvalidated(w, cfg) ==
    IF ~w.fc.winring_init_ok
    THEN [w |-> setError(w, ErrWriteNotInit), ret |-> FALSE]
    ELSE writeConfig_try(setError(w, ""), cfg)

\* writeConfig() without its setError("") after the initialized check.
writeConfig_keepsError(w, cfg) ==
    IF ~w.fc.winring_init_ok
    THEN [w |-> setError(w, ErrWriteNotInit), ret |-> FALSE]
    ELSE IF \E t \in DOMAIN cfg : Len(cfg[t]) # 10
         THEN [w |-> setError(w, ErrInvalidConfig), ret |-> FALSE]
         ELSE writeConfig_try(w, cfg)

\* writeConfig() that validates the table sizes before its initialized check.
writeConfig_validatesFirst(w, cfg) ==
    IF \E t \in DOMAIN cfg : Len(cfg[t]) # 10
    THEN [w |-> setError(setError(w, ""), ErrInvalidConfig), ret |-> FALSE]
    ELSE IF ~w.fc.winring_init_ok
         THEN [w |-> setError(w, ErrWriteNotInit), ret |-> FALSE]
         ELSE writeConfig_try(setError(w, ""), cfg)

writeConfig(w, cfg) ==
    IF ~w.fc.winring_init_ok
    THEN [w |-> setError(w, ErrWriteNotInit), ret |-> FALSE]
    ELSE
      LET w0 == setError(w, "") IN
      IF \/ Len(cfg.fan1_curve) # 10 \/ Len(cfg.fan2_curve) # 10
         \/ Len(cfg.acc_time) # 10 \/ Len(cfg.dec_time) # 10
         \/ Len(cfg.cpu_lower_temp) # 10 \/ Len(cfg.cpu_upper_temp) # 10
         \/ Len(cfg.gpu_lower_temp) # 10 \/ Len(cfg.gpu_upper_temp) # 10
         \/ Len(cfg.vrm_lower_temp) # 10 \/ Len(cfg.vrm_upper_temp) # 10
      THEN [w |-> setError(w0, ErrInvalidConfig), ret |-> FALSE]
      ELSE writeConfig_try(w0, cfg)

----------------------------------------------------------------------------
(* Inputs *)

\* How many patterned configurations writeConfig is tried with.
NumPatterns == 1

TableOrder ==
    <<"fan1_curve", "fan2_curve", "acc_time", "dec_time",
      "cpu_lower_temp", "cpu_upper_temp", "gpu_lower_temp", "gpu_upper_temp",
      "vrm_lower_temp", "vrm_upper_temp">>

TableIndex(t) == CHOOSE k \in 1..Len(TableOrder) : TableOrder[k] = t

\* A table of n bytes that differs from every other table of the same
\* configuration and from the same table of the other patterns.
PatternTable(t, k, n) == [i \in 1..n |-> (23 * TableIndex(t) + i + 101 * k) % 256]

PatternConfig(k) == [t \in TableNames |-> PatternTable(t, k, TableSize)]

ValidConfigs == {FanConfigData_ctor} \cup {PatternConfig(k) : k \in 1..NumPatterns}

\* Lengths other than 10 a table is tried with: empty, one short, one long.
BadLengths == <<0, TableSize - 1, TableSize + 1>>

BadLengthOf(t) == BadLengths[(TableIndex(t) % Len(BadLengths)) + 1]

\* One table of the wrong length, the other nine of length 10: each table in
\* turn, on a patterned configuration.
InvalidConfigs ==
    {[PatternConfig(1) EXCEPT ![t] = PatternTable(t, 1, BadLengthOf(t))] :
        t \in TableNames}

\* What GetProcAddress may find: everything, all but one symbol, nothing.
SymbolChoices(all) == {all, {}} \cup {all \ {x} : x \in all}

\* What an initialize() call may meet, by the step that fails (or none).  What
\* a step behind the failing one would have met is not part of the input.
AllOk ==
    [libOk |-> TRUE, syms |-> WrapperSymbols, drvOk |-> TRUE,
     drvSyms |-> DriverSymbols, olsOk |-> TRUE]

InitializeInputs ==
    {AllOk, [AllOk EXCEPT !.libOk = FALSE], [AllOk EXCEPT !.drvOk = FALSE],
     [AllOk EXCEPT !.olsOk = FALSE]}
    \cup {[AllOk EXCEPT !.syms = c] : c \in SymbolChoices(WrapperSymbols)}
    \cup {[AllOk EXCEPT !.drvSyms = c] : c \in SymbolChoices(DriverSymbols)}

\* What the EC firmware keeps in the registers it owns: the fan counters, the
\* target curve values and the current breakpoint index.
FirmwareSamples ==
    { [cur |-> 3,  rpm1 |-> 2600, rpm2 |-> 0,    tv1 |-> 30, tv2 |-> 45],
      [cur |-> 9,  rpm1 |-> 5200, rpm2 |-> 1508, tv1 |-> 45, tv2 |-> 0],
      [cur |-> 10, rpm1 |-> 6000, rpm2 |-> 65535, tv1 |-> 255, tv2 |-> 30] }

\* mem with the first n <<address, byte>> pairs of ps stored.
RECURSIVE MemSetFirst(_, _, _)
MemSetFirst(mem, ps, n) ==
    IF n = 0 THEN mem
    ELSE MemSet(MemSetFirst(mem, ps, n - 1), ps[n][1], ps[n][2])

MemSetAll(mem, ps) == MemSetFirst(mem, ps, Len(ps))

FirmwareWrite(mem, s) ==
    MemSetAll(mem,
        << <<FAN_CUR_POINT, s.cur>>,
           <<FAN1_RPM_LSB, s.rpm1 % 256>>, <<FAN1_RPM_MSB, s.rpm1 \div 256>>,
           <<FAN2_RPM_LSB, s.rpm2 % 256>>, <<FAN2_RPM_MSB, s.rpm2 \div 256>>,
           <<FAN1_TARGET_CURVE_VAL, s.tv1>>, <<FAN2_TARGET_CURVE_VAL, s.tv2>> >>)

\* The identification bytes of the chip.
EcPowerOnMemory ==
    MemSetAll(<<>>, << <<ECHIPID1, 130>>, <<ECHIPID2, 39>>, <<ECHIPVER, 2>>,
                       <<FW_VER, 7>> >>)

----------------------------------------------------------------------------
(* The state machine: one controller, used from one thread *)

\* No operation under way: operations are followed call by call, not port
\* call by port call.
NoCall == [op |-> "idle", ops |-> 0]

\* Nothing counted: the wrapper is followed through the controller alone.
NoUse == [loads |-> 0, kept |-> 0, opens |-> 0]

\* No curve editor: a program that uses the controller without main()'s GUI.
NoEditor == [drags |-> 0]

\* The world a freshly constructed controller is in, the EC holding the
\* firmware sample s.
Constructed(s) ==
    [fc |-> FanController_ctor,
     wr |-> WrapperGlobals,
     proc |-> [wrapperRef |-> 0, driverRef |-> 0, olsOpen |-> FALSE],
     ec |-> [sel |-> 0, reg |-> 0, hi |-> 0, lo |-> 0,
             mem |-> FirmwareWrite(EcPowerOnMemory, s)],
     trace |-> <<>>, calls |-> <<>>, stale |-> FALSE]

\* The variables hold the world w, op having returned r.
Holds(w, op, r) ==
    /\ fc = w.fc
    /\ wr = w.wr
    /\ proc = w.proc
    /\ ec = w.ec
    /\ trace = w.trace
    /\ calls = w.calls
    /\ stale = w.stale
    /\ lastOp = op
    /\ ret = r
    /\ statusData = FanStatusData_ctor
    /\ configData = FanConfigData_ctor
    /\ ecAddr = 0
    /\ ecData = 0
    /\ ecBuffer = <<>>
    /\ threads = [t \in {1, 2} |-> [op |-> "idle", done |-> 0, pc |-> 0,
                                    mixed |-> FALSE, wanted |-> 0,
                                    landed |-> 0, got |-> 0,
                                    wasMixed |-> FALSE]]
    /\ reader = [busy |-> FALSE, i |-> 0, changes |-> 0,
                 before |-> <<>>, held |-> <<>>, after |-> <<>>]
    /\ gui = NoEditor
    /\ wrapperUse = NoUse
    /\ call = NoCall

Init == \E s \in FirmwareSamples : Holds(Constructed(s), "FanController", TRUE)

\* The variables a finished operation leaves: w is the world after it.
Commit(w, op, r) ==
    /\ fc' = w.fc
    /\ wr' = w.wr
    /\ proc' = w.proc
    /\ ec' = w.ec
    /\ trace' = w.trace
    /\ calls' = w.calls
    /\ stale' = w.stale
    /\ lastOp' = op
    /\ ret' = r

Initialize ==
    /\ \E in \in InitializeInputs :
         LET r == initialize(World, in)
         IN /\ r.w.proc.driverRef <= MaxDriverRef
            /\ Commit(r.w, "initialize", r.ret)
    /\ statusData' = FanStatusData_ctor
    /\ configData' = FanConfigData_ctor
    /\ UNCHANGED <<ecAddr, ecData, ecBuffer, threads, reader, gui, wrapperUse, call>>

Deinitialize ==
    /\ Commit(deinitialize(World), "deinitialize", TRUE)
    /\ statusData' = FanStatusData_ctor
    /\ configData' = FanConfigData_ctor
    /\ UNCHANGED <<ecAddr, ecData, ecBuffer, threads, reader, gui, wrapperUse, call>>

\* readStatus on a freshly constructed FanStatusData
ReadStatus ==
    /\ LET r == readStatus(World, FanStatusData_ctor)
       IN Commit(r.w, "readStatus", r.ret) /\ statusData' = r.sd
    /\ configData' = FanConfigData_ctor
    /\ UNCHANGED <<ecAddr, ecData, ecBuffer, threads, reader, gui, wrapperUse, call>>

WriteConfig ==
    /\ \E cfg \in ValidConfigs \cup InvalidConfigs :
         LET r == writeConfig(World, cfg)
         IN Commit(r.w, "writeConfig", r.ret) /\ configData' = cfg
    /\ statusData' = FanStatusData_ctor
    /\ UNCHANGED <<ecAddr, ecData, ecBuffer, threads, reader, gui, wrapperUse, call>>

Next == Initialize \/ Deinitialize \/ ReadStatus \/ WriteConfig

Spec == Init /\ [][Next]_vars

----------------------------------------------------------------------------
(* Single EC transactions, on a controller that initialize() has made Ready *)

\* The addresses and bytes the transactions are tried with: the ends of the
\* address range, 0x00FF and 0xFF00, whose halves differ, and 0xC583.
EcAddresses == {0, 255, 50563, 65280, 65535}

EcBytes == {0, 165}

InitEc ==
    \E s \in FirmwareSamples :
        LET r == initialize(Constructed(s), AllOk)
        IN Holds(r.w, "initialize", r.ret)

EcRead ==
    /\ \E a \in EcAddresses :
         LET r == direct_ec_read(World, a)
         IN Commit(r.w, "direct_ec_read", TRUE) /\ ecAddr' = a /\ ecData' = r.val
    /\ UNCHANGED <<statusData, configData, ecBuffer, threads, reader, gui, wrapperUse, call>>

EcWrite ==
    /\ \E a \in EcAddresses, v \in EcBytes :
         Commit(direct_ec_write(World, a, v), "direct_ec_write", TRUE)
           /\ ecAddr' = a /\ ecData' = v
    /\ UNCHANGED <<statusData, configData, ecBuffer, threads, reader, gui, wrapperUse, call>>

NextEc == EcRead \/ EcWrite

SpecEc == InitEc /\ [][NextEc]_vars

----------------------------------------------------------------------------
(* The array helpers, on a controller that initialize() has made Ready *)

\* The base addresses, sizes and data the helpers are tried with: a base
\* whose low byte carries into the high byte and one at the end of the
\* address range; nothing, a few bytes, a whole table.
ArrayBases == {254, 65534}

ArraySizes == {0, 1, 3, TableSize}

ArrayData ==
    {PatternTable("fan1_curve", 1, n) : n \in ArraySizes}
        \cup {ZeroVec(3)}

EcReadArray ==
    /\ \E a \in ArrayBases, n \in ArraySizes :
         LET r == direct_ec_read_array(World, a, n)
         IN Commit(r.w, "direct_ec_read_array", TRUE)
              /\ ecAddr' = a /\ ecBuffer' = r.val
    /\ UNCHANGED <<statusData, configData, ecData, threads, reader, gui, wrapperUse, call>>

EcWriteArray ==
    /\ \E a \in ArrayBases, d \in ArrayData :
         Commit(direct_ec_write_array(World, a, d), "direct_ec_write_array", TRUE)
           /\ ecAddr' = a /\ ecBuffer' = d
    /\ UNCHANGED <<statusData, configData, ecData, threads, reader, gui, wrapperUse, call>>

NextArray == EcReadArray \/ EcWriteArray

SpecArray == InitEc /\ [][NextArray]_vars

----------------------------------------------------------------------------
(* The percentages alone: readStatus's two assignments, for every value    *)
(* the 16-bit fan counters can hold                                        *)

Rpms == 0..65535

InitPercent ==
    /\ \E rpm \in Rpms :
         statusData = [FanStatusData_ctor EXCEPT !.fan1_speed = rpm,
                                                 !.fan2_speed = rpm]
    /\ \E w \in {initialize(Constructed([cur |-> 3, rpm1 |-> 0, rpm2 |-> 0,
                                          tv1 |-> 0, tv2 |-> 0]), AllOk).w} :
         /\ fc = w.fc /\ wr = w.wr /\ proc = w.proc /\ ec = w.ec
         /\ trace = <<>> /\ calls = <<>> /\ stale = w.stale
    /\ lastOp = "initialize"
    /\ ret = TRUE
    /\ configData = FanConfigData_ctor
    /\ ecAddr = 0
    /\ ecData = 0
    /\ ecBuffer = <<>>
    /\ threads = [t \in {1, 2} |-> [op |-> "idle", done |-> 0, pc |-> 0,
                                    mixed |-> FALSE, wanted |-> 0,
                                    landed |-> 0, got |-> 0,
                                    wasMixed |-> FALSE]]
    /\ reader = [busy |-> FALSE, i |-> 0, changes |-> 0,
                 before |-> <<>>, held |-> <<>>, after |-> <<>>]
    /\ gui = NoEditor
    /\ wrapperUse = NoUse
    /\ call = NoCall

\* statusData.fan1_percent = ...; statusData.fan2_percent = ...
Percentages ==
    /\ lastOp = "initialize"
    /\ statusData' =
          [statusData EXCEPT
              !.fan1_percent = fan_percent(statusData.fan1_speed, MAX_FAN1_RPM),
              !.fan2_percent = fan_percent(statusData.fan2_speed, MAX_FAN2_RPM)]
    /\ lastOp' = "percentages"
    /\ UNCHANGED <<fc, wr, proc, ec, trace, calls, stale, ret, configData,
                   ecAddr, ecData, ecBuffer, threads, reader, gui, wrapperUse, call>>

NextPercent == Percentages

SpecPercent == InitPercent /\ [][NextPercent]_vars

----------------------------------------------------------------------------
(* Two threads on one controller, without a lock.  Neither readStatus nor  *)
(* writeConfig takes one, so what the processor interleaves is the single  *)
(* port calls (pReadPort / pWritePort) the two operations make.            *)

\* Transactions of each operation that are followed; a thread is not followed
\* past them.
MaxThreadTransactions == 1

Threads == {1, 2}

\* The port writes of direct_ec_read / direct_ec_write before the transfer.
AddressingWrites(addr) ==
    << <<EC_ADDR_PORT, 46>>, <<EC_DATA_PORT, 17>>,
       <<EC_ADDR_PORT, 47>>, <<EC_DATA_PORT, (addr \div 256) % 256>>,
       <<EC_ADDR_PORT, 46>>, <<EC_DATA_PORT, 16>>,
       <<EC_ADDR_PORT, 47>>, <<EC_DATA_PORT, addr % 256>>,
       <<EC_ADDR_PORT, 46>>, <<EC_DATA_PORT, 18>>,
       <<EC_ADDR_PORT, 47>> >>

\* The address of the n-th transaction readStatus makes, counted from entry i
\* of StatusReads: a single register, or the next element of an array.
RECURSIVE StatusAddress(_, _)
StatusAddress(i, n) ==
    LET size == IF StatusReads[i][3] = 0 THEN 1 ELSE StatusReads[i][3]
    IN IF n <= size THEN U16(StatusReads[i][2] + U16(n - 1))
       ELSE StatusAddress(i + 1, n - size)

\* The n-th transaction of an operation (writeConfig: of its table writes,
\* n <= 100, with the configuration PatternConfig(1)).
ThreadTransaction(op, n) ==
    IF op = "readStatus"
    THEN [kind |-> "R", addr |-> StatusAddress(1, n), data |-> 0]
    ELSE [kind |-> "W",
          addr |-> U16(ConfigTableWrites[((n - 1) \div TableSize) + 1][1]
                          + U16((n - 1) % TableSize)),
          data |-> PatternConfig(1)[ConfigTableWrites[((n - 1) \div TableSize) + 1][2]]
                       [((n - 1) % TableSize) + 1]]

\* Where the EC puts or takes the byte of a transfer on the data port: the
\* address its address registers hold, or -1 when the data port is not routed
\* to EC memory.
TransferAddress(e) == IF e.sel = 47 /\ e.reg = 18 THEN EcAddress(e) ELSE -1

\* The thread's 12th port call: the transfer.
ThreadTransfer(w, tx) ==
    IF tx.kind = "R" THEN read_io_port_byte(w, EC_DATA_PORT)
    ELSE [w |-> write_io_port_byte(w, EC_DATA_PORT, tx.data), val |-> tx.data]

\* The thread's n-th port call of the transaction tx.
ThreadPortCall(w, tx, n) ==
    IF n = 12 THEN ThreadTransfer(w, tx)
    ELSE [w |-> write_io_port_byte(w, AddressingWrites(tx.addr)[n][1],
                                   AddressingWrites(tx.addr)[n][2]),
          val |-> 0]

\* A thread that waits for the other one's transaction to end (the lock the
\* code does not have).
MayCall_locked(t) ==
    /\ threads[t].op # "idle"
    /\ threads[t].done < MaxThreadTransactions
    /\ \A u \in Threads \ {t} : threads[u].pc = 0

\* A thread makes its next port call whenever it has one left.
MayCall(t) ==
    /\ threads[t].op # "idle"
    /\ threads[t].done < MaxThreadTransactions

\* The threads after t made the n-th port call of tx and got r: t moves on
\* (after a transfer it notes the address asked for, the address the EC used,
\* the byte, and whether the transaction was mixed); every other thread that
\* is inside a transaction has had it mixed with a port call of t.
AfterPortCall(t, tx, n, r) ==
    [u \in Threads |->
        IF u # t
        THEN [threads[u] EXCEPT !.mixed = @ \/ threads[u].pc > 0]
        ELSE IF n < 12
        THEN [threads[t] EXCEPT !.pc = n, !.mixed = @ /\ n > 1]
        ELSE [threads[t] EXCEPT !.pc = 0, !.done = @ + 1,
                                !.wanted = tx.addr,
                                !.landed = TransferAddress(ec),
                                !.got = r.val,
                                !.wasMixed = threads[t].mixed]]

\* A thread enters readStatus or writeConfig (valid tables) on the
\* initialized controller: both start by clearing lastError.
ThreadEnter(t) ==
    /\ threads[t].op = "idle"
    /\ \E op \in {"readStatus", "writeConfig"} :
         /\ Commit(setError(World, ""), op, TRUE)
         /\ threads' = [threads EXCEPT ![t].op = op]
    /\ UNCHANGED <<statusData, configData, ecAddr, ecData, ecBuffer, reader, gui, wrapperUse, call>>

\* A thread makes the next port call of its operation.
ThreadStep(t) ==
    /\ MayCall(t)
    /\ LET tx == ThreadTransaction(threads[t].op, threads[t].done + 1)
           n == threads[t].pc + 1
           r == ThreadPortCall(World, tx, n)
       IN /\ Commit(r.w, threads[t].op, TRUE)
          /\ threads' = AfterPortCall(t, tx, n, r)
    /\ UNCHANGED <<statusData, configData, ecAddr, ecData, ecBuffer, reader, gui, wrapperUse, call>>

NextThreads == \E t \in Threads : ThreadEnter(t) \/ ThreadStep(t)

SpecThreads == InitEc /\ [][NextThreads]_vars

----------------------------------------------------------------------------
(* direct_ec_read_array while another agent (the EC firmware, another      *)
(* writer) owns the table too: the loop makes one whole transaction for    *)
(* each element, and the agent may change EC memory between two of them.   *)

\* Changes of the table by the other agent during one direct_ec_read_array.
MaxChanges == 1

TornBases == {FAN1_BASE, 65534}

TornSizes == {1, 3}

\* The n bytes of EC memory at base, base + 1, ...
Snapshot(mem, base, n) == [k \in 1..n |-> MemGet(mem, U16(base + k - 1))]

\* std::vector<uint8_t> buffer(size): the call starts.
ArrayReadBegin ==
    /\ ~reader.busy
    /\ \E a \in TornBases, n \in TornSizes :
         /\ ecAddr' = a
         /\ ecBuffer' = ZeroVec(n)
         /\ reader' = [busy |-> TRUE, i |-> 0, changes |-> 0,
                       before |-> Snapshot(ec.mem, a, n), held |-> <<>>,
                       after |-> <<>>]
    /\ Commit(World, "direct_ec_read_array", FALSE)
    /\ UNCHANGED <<statusData, configData, ecData, threads, gui, wrapperUse, call>>

\* One iteration of the loop: buffer[i] = direct_ec_read(addr_base + i).  The
\* byte EC memory holds at that address at this moment is noted.
ArrayReadElement ==
    /\ reader.busy
    /\ reader.i < Len(ecBuffer)
    /\ LET st == Store([val |-> ecBuffer, w |-> World], reader.i,
                       direct_ec_read(World, U16(ecAddr + U16(reader.i))))
       IN /\ Commit(st.w, "direct_ec_read_array", FALSE)
          /\ ecBuffer' = st.val
    /\ reader' = [reader EXCEPT
                      !.i = @ + 1,
                      !.held = Append(@, MemGet(ec.mem, U16(ecAddr + reader.i)))]
    /\ UNCHANGED <<statusData, configData, ecAddr, ecData, threads, gui, wrapperUse, call>>

\* return buffer (the table as it is now is noted beside the one from the
\* start of the call)
ArrayReadReturn ==
    /\ reader.busy
    /\ reader.i = Len(ecBuffer)
    /\ Commit(World, "direct_ec_read_array", TRUE)
    /\ reader' = [reader EXCEPT !.busy = FALSE,
                                !.after = Snapshot(ec.mem, ecAddr, Len(ecBuffer))]
    /\ UNCHANGED <<statusData, configData, ecAddr, ecData, ecBuffer, threads, gui, wrapperUse, call>>

\* The other agent rewrites a table of EC memory, between two transactions
\* of the reader or while no read is under way.
OtherAgentWrite ==
    /\ reader.busy => reader.changes < MaxChanges
    /\ \E a \in TornBases, k \in 1..2 :
         ec' = [ec EXCEPT !.mem =
                   MemSetAll(@, [j \in 1..TableSize |->
                                    <<U16(a + j - 1),
                                      PatternTable("fan1_curve", k, TableSize)[j]>>])]
    /\ reader' = IF reader.busy THEN [reader EXCEPT !.changes = @ + 1]
                 ELSE reader
    /\ UNCHANGED <<fc, wr, proc, trace, calls, stale, lastOp, ret, statusData,
                   configData, ecAddr, ecData, ecBuffer, threads, gui, wrapperUse, call>>

NextTorn ==
    ArrayReadBegin \/ ArrayReadElement \/ ArrayReadReturn \/ OtherAgentWrite

SpecTorn == InitEc /\ [][NextTorn]_vars

----------------------------------------------------------------------------
(* Properties *)

\* How often c occurs in a sequence.
Count(seq, c) == Cardinality({i \in DOMAIN seq : seq[i] = c})

\* seq holds every element of sub, in that order.
RECURSIVE HasInOrder(_, _)
HasInOrder(seq, sub) ==
    IF sub = <<>> THEN TRUE
    ELSE IF seq = <<>> THEN FALSE
    ELSE IF Head(seq) = Head(sub) THEN HasInOrder(Tail(seq), Tail(sub))
    ELSE HasInOrder(Tail(seq), sub)

SizesValid(cfg) == \A t \in TableNames : Len(cfg[t]) = TableSize

\* C1: on an initialized controller, writeConfig of a configuration whose ten
\* tables have length 10 succeeds, and a readStatus that follows a successful
\* writeConfig succeeds and returns each of the ten tables as it was written.
RoundTrip ==
    [][/\ (isInitialized /\ lastOp' = "writeConfig" /\ SizesValid(configData'))
            => ret'
       /\ (lastOp = "writeConfig" /\ ret /\ lastOp' = "readStatus")
            => /\ ret'
               /\ \A t \in TableNames : statusData'.tables[t] = configData[t]]_vars

\* A readStatus has returned the patterned tables a writeConfig wrote.
RoundTripSeen ==
    /\ lastOp = "readStatus" /\ ret
    /\ statusData.tables = PatternConfig(1)

\* C2: readStatus and writeConfig on a controller that is not initialized
\* return failure, leave the not-initialized message, make no port call and
\* leave the EC as it was.
NotInitializedFails ==
    [][(~isInitialized /\ lastOp' \in {"readStatus", "writeConfig"})
          => /\ ~ret'
             /\ fc'.lastError = IF lastOp' = "readStatus" THEN ErrReadNotInit
                                ELSE ErrWriteNotInit
             /\ trace' = <<>>
             /\ ec' = ec]_vars

\* writeConfig was refused on a controller that a failed initialize had left
\* with its port function pointers set.
NotInitializedSeen ==
    /\ lastOp = "writeConfig" /\ ~ret /\ ~isInitialized
    /\ fc.lastError = ErrWriteNotInit
    /\ fc.pWritePort /\ fc.pReadPort
    /\ trace = <<>>

\* C3: on an initialized controller, writeConfig of a configuration with a
\* table whose length is not 10 returns failure with the invalid-configuration
\* message, makes no port call and leaves the EC as it was.
InvalidConfigRejected ==
    [][(isInitialized /\ lastOp' = "writeConfig" /\ ~SizesValid(configData'))
          => /\ ~ret'
             /\ fc'.lastError = ErrInvalidConfig
             /\ trace' = <<>>
             /\ ec' = ec]_vars

\* An initialized controller has refused a configuration whose only wrong
\* table is the last one the validation looks at.
InvalidConfigSeen ==
    /\ lastOp = "writeConfig" /\ ~ret /\ isInitialized
    /\ fc.lastError = ErrInvalidConfig
    /\ Len(configData.vrm_upper_temp) # TableSize
    /\ \A t \in TableNames \ {"vrm_upper_temp"} : Len(configData[t]) = TableSize

\* C4: isInitialized() becomes true only by an initialize that returns
\* success, becomes false only by deinitialize, is false after a failing
\* initialize and after every deinitialize, is not changed by readStatus or
\* writeConfig; an initialize that succeeds right after a deinitialize loads
\* the wrapper, runs LoadWinRing0 and InitWinRing0 again, and after a
\* deinitialize such an initialize is possible.
Lifecycle ==
    /\ [][/\ (~isInitialized /\ isInitialized') => (lastOp' = "initialize" /\ ret')
          /\ (isInitialized /\ ~isInitialized') => lastOp' = "deinitialize"
          /\ lastOp' = "initialize" => (isInitialized' <=> ret')
          /\ lastOp' = "deinitialize" => ~isInitialized'
          /\ lastOp' \in {"readStatus", "writeConfig"}
                => (isInitialized' <=> isInitialized)
          /\ (lastOp = "deinitialize" /\ lastOp' = "initialize" /\ ret')
                => HasInOrder(calls', <<"LoadLibraryA", "GetProcAddress",
                                        "LoadWinRing0", "LoadLibraryW",
                                        "InitWinRing0", "InitializeOls">>)]_vars
    /\ []((lastOp = "deinitialize" /\ proc.driverRef < MaxDriverRef)
            => ENABLED (Initialize /\ isInitialized'))

\* A deinitialize has taken a Ready controller back to Uninitialized.
LifecycleSeen ==
    /\ lastOp = "deinitialize" /\ ~isInitialized
    /\ HasInOrder(calls, <<"DeinitWinRing0", "DeinitializeOls">>)

\* C5: initialize on an initialized controller returns success, makes no
\* capability call and changes nothing; the initialize that made it
\* initialized loaded the wrapper once and called LoadWinRing0 and
\* InitWinRing0 once each.
InitializeIdempotent ==
    [][/\ (isInitialized /\ lastOp' = "initialize")
            => /\ ret' /\ calls' = <<>> /\ trace' = <<>>
               /\ fc' = fc /\ wr' = wr /\ proc' = proc /\ ec' = ec
       /\ (~isInitialized /\ lastOp' = "initialize" /\ ret')
            => /\ Count(calls', "LoadLibraryA") = 1
               /\ Count(calls', "LoadWinRing0") = 1
               /\ Count(calls', "InitWinRing0") = 1]_vars

\* A second initialize has returned success without a call.
InitializeIdempotentSeen ==
    /\ lastOp = "initialize" /\ ret /\ isInitialized
    /\ calls = <<>>
    /\ proc.wrapperRef = 1

\* C6: an initialize that returns failure has released all that it acquired:
\* the wrapper library is freed and the handle is null, and the process holds
\* no more references to WinRing0x64.dll than before the call.
FailedInitializeReleasesAll ==
    [][(lastOp' = "initialize" /\ ~ret')
          => /\ ~fc'.hWinRing0Wrapper
             /\ proc'.wrapperRef = proc.wrapperRef
             /\ proc'.driverRef = proc.driverRef]_vars

\* C7: after an initialize that returns failure the controller is as the
\* constructor leaves it, but for the error message: not initialized, the
\* handle null, the six function pointers null.
FailedInitializeLeavesFresh ==
    [][(lastOp' = "initialize" /\ ~ret')
          => [fc' EXCEPT !.lastError = ""] = FanController_ctor]_vars

\* C8 as claimed: after deinitialize every field of the controller, the
\* last-error string included, has the value the constructor gives it.
DeinitializeResetsAll ==
    [][lastOp' = "deinitialize" => fc' = FanController_ctor]_vars

\* C8 as amended: after deinitialize the flag, the handle and the six function
\* pointers have the values the constructor gives them and the last-error
\* string is what it was before; the wrapper library is unloaded, and a
\* controller that was initialized has closed the driver and given up one
\* reference to WinRing0x64.dll.
DeinitializeResets ==
    [][lastOp' = "deinitialize"
          => /\ fc' = [FanController_ctor EXCEPT !.lastError = fc.lastError]
             /\ proc'.wrapperRef = 0
             /\ ~proc'.olsOpen
             /\ proc'.driverRef = IF isInitialized THEN proc.driverRef - 1
                                  ELSE proc.driverRef]_vars

\* A deinitialize has left the message of an earlier failure in place.
DeinitializeResetsSeen ==
    /\ lastOp = "deinitialize"
    /\ fc.lastError = ErrInitWinRing0
    /\ [fc EXCEPT !.lastError = ""] = FanController_ctor

\* C9: deinitialize on a controller that is not initialized makes no call and
\* leaves it not initialized; DeinitializeOls is called by deinitialize only,
\* once, on an initialized controller, which is not initialized afterwards; no
\* call goes through a pointer into a library that has been unloaded.
DeinitializeSafe ==
    [][/\ (~isInitialized /\ lastOp' = "deinitialize")
            => /\ calls' = <<>> /\ ~isInitialized'
               /\ wr' = wr /\ proc' = proc
       /\ Count(calls', "DeinitializeOls") =
            (IF lastOp' = "deinitialize" /\ isInitialized THEN 1 ELSE 0)
       /\ (lastOp' = "deinitialize" /\ isInitialized) => ~isInitialized'
       /\ ~stale']_vars

\* A deinitialize on a controller that a failed initialize had left
\* uninitialized (the driver library still loaded) has made no call.
DeinitializeSafeSeen ==
    /\ lastOp = "deinitialize" /\ calls = <<>>
    /\ ~isInitialized /\ proc.driverRef > 0 /\ ~stale

\* C10: direct_ec_read(a) makes twelve port calls: register 0x11 selected and
\* given the high byte of a, register 0x10 selected and given the low byte,
\* register 0x12 selected, then one read of the data port, whose value it
\* returns and which is the byte of EC memory at a; EC memory is unchanged.
\* 0xC583 is sent as 0xC5 and 0x83.
ReadProtocol ==
    [][lastOp' = "direct_ec_read"
          => /\ trace' =
                  << <<"W", EC_ADDR_PORT, 46>>, <<"W", EC_DATA_PORT, 17>>,
                     <<"W", EC_ADDR_PORT, 47>>,
                     <<"W", EC_DATA_PORT, (ecAddr' \div 256) % 256>>,
                     <<"W", EC_ADDR_PORT, 46>>, <<"W", EC_DATA_PORT, 16>>,
                     <<"W", EC_ADDR_PORT, 47>>,
                     <<"W", EC_DATA_PORT, ecAddr' % 256>>,
                     <<"W", EC_ADDR_PORT, 46>>, <<"W", EC_DATA_PORT, 18>>,
                     <<"W", EC_ADDR_PORT, 47>>,
                     <<"R", EC_DATA_PORT, ecData'>> >>
             /\ ecData' = MemGet(ec.mem, ecAddr')
             /\ ec'.mem = ec.mem
             /\ (ecAddr' = 50563 => trace'[4][3] = 197 /\ trace'[8][3] = 131)]_vars

\* A read of 0xC583 has returned the byte written there.
ReadProtocolSeen ==
    /\ lastOp = "direct_ec_read"
    /\ ecAddr = 50563 /\ ecData = 165
    /\ Len(trace) = 12

\* C11: the port calls of direct_ec_write(a, v) are the eleven port writes of
\* direct_ec_read(a), in the same order with the same values, followed by one
\* write of v to the data port; it reads no port, and the byte of EC memory
\* at a is v afterwards, the other bytes as before.
WriteProtocol ==
    [][lastOp' = "direct_ec_write"
          => /\ trace' = SubSeq(direct_ec_read(World, ecAddr').w.trace, 1, 11)
                           \o << <<"W", EC_DATA_PORT, ecData'>> >>
             /\ Len(direct_ec_read(World, ecAddr').w.trace) = 12
             /\ \A i \in DOMAIN trace' : trace'[i][1] = "W"
             /\ ec'.mem = MemSet(ec.mem, ecAddr', ecData')]_vars

\* A write of 0xA5 to 0xC583 has been made: twelve port writes, the byte there.
WriteProtocolSeen ==
    /\ lastOp = "direct_ec_write"
    /\ ecAddr = 50563 /\ ecData = 165
    /\ Len(trace) = 12
    /\ trace[12] = <<"W", EC_DATA_PORT, 165>>
    /\ MemGet(ec.mem, 50563) = 165

\* The twelve port calls of one transaction at address a: kind is "R" or "W",
\* v the byte read or written.
Transaction(kind, a, v) ==
    << <<"W", EC_ADDR_PORT, 46>>, <<"W", EC_DATA_PORT, 17>>,
       <<"W", EC_ADDR_PORT, 47>>, <<"W", EC_DATA_PORT, (a \div 256) % 256>>,
       <<"W", EC_ADDR_PORT, 46>>, <<"W", EC_DATA_PORT, 16>>,
       <<"W", EC_ADDR_PORT, 47>>, <<"W", EC_DATA_PORT, a % 256>>,
       <<"W", EC_ADDR_PORT, 46>>, <<"W", EC_DATA_PORT, 18>>,
       <<"W", EC_ADDR_PORT, 47>>, <<kind, EC_DATA_PORT, v>> >>

\* The port calls of the transactions at base, base + 1, ... (addresses are
\* 16 bits wide), one for each byte of vals, in ascending order.
Transactions(kind, base, vals) ==
    [j \in 1..(12 * Len(vals)) |->
        Transaction(kind, U16(base + ((j - 1) \div 12)),
                    vals[((j - 1) \div 12) + 1])[((j - 1) % 12) + 1]]

\* C12: direct_ec_read_array(base, n) makes n read transactions, at base,
\* base + 1, ..., base + n - 1 in that order, and returns n bytes, byte i the
\* one read at base + i, which is the byte of EC memory there;
\* direct_ec_write_array(base, d) makes Len(d) write transactions, d[i] to
\* base + i in that order, after which EC memory holds d there.
ArrayHelpers ==
    [][/\ lastOp' = "direct_ec_read_array"
            => /\ trace' = Transactions("R", ecAddr', ecBuffer')
               /\ Len(trace') = 12 * Len(ecBuffer')
               /\ \A i \in 1..Len(ecBuffer') :
                     ecBuffer'[i] = MemGet(ec.mem, U16(ecAddr' + i - 1))
               /\ ec'.mem = ec.mem
       /\ lastOp' = "direct_ec_write_array"
            => /\ trace' = Transactions("W", ecAddr', ecBuffer')
               /\ Len(trace') = 12 * Len(ecBuffer')
               /\ \A i \in 1..Len(ecBuffer') :
                     MemGet(ec'.mem, U16(ecAddr' + i - 1)) = ecBuffer'[i]]_vars

\* A direct_ec_read_array of ten bytes has returned the table a
\* direct_ec_write_array wrote across the end of a 256-byte page.
ArrayHelpersSeen ==
    /\ lastOp = "direct_ec_read_array"
    /\ ecAddr = 254
    /\ ecBuffer = PatternTable("fan1_curve", 1, TableSize)
    /\ Len(trace) = 120

\* C13: direct_ec_write_array with an empty vector returns at once: for any
\* base address it makes no port call at all (no transaction, no driver call)
\* and leaves the EC as it was.
EmptyWriteNoOp ==
    [][(lastOp' = "direct_ec_write_array" /\ Len(ecBuffer') = 0)
          => /\ trace' = <<>>
             /\ calls' = <<>>
             /\ ec' = ec
             /\ fc' = fc]_vars

EmptyWriteSeen ==
    /\ lastOp = "direct_ec_write_array"
    /\ ecAddr = 65534
    /\ ecBuffer = <<>>
    /\ trace = <<>>

\* The address that the k-th block of twelve port calls of tr selects (k from
\* 0): the byte sent after register 0x11 is its high half, the byte sent after
\* register 0x10 its low half.
BlockAddress(tr, k) == tr[12 * k + 4][3] * 256 + tr[12 * k + 8][3]

\* tr is a concatenation of whole transactions: its length is a multiple of
\* twelve and each block of twelve is the three addressing phases followed by
\* one data transfer.
WholeTransactions(tr) ==
    /\ Len(tr) % 12 = 0
    /\ \A k \in 0..((Len(tr) \div 12) - 1) :
          /\ tr[12 * k + 12][1] \in {"R", "W"}
          /\ [j \in 1..12 |-> tr[12 * k + j]]
                = Transaction(tr[12 * k + 12][1], BlockAddress(tr, k),
                              tr[12 * k + 12][3])

\* C14: with one caller at a time, the port calls of every operation are a
\* concatenation of whole four-phase transactions: no port call of another
\* transaction comes between the first addressing write of a transaction and
\* its data transfer, and no transaction is partly issued when the operation
\* returns.
TransactionsWhole == WholeTransactions(trace)

TransactionsWholeSeen ==
    /\ lastOp = "writeConfig"
    /\ ret
    /\ Len(trace) = 12 * 109
    /\ trace[12 * 109][1] = "W"

\* C15: two threads inside readStatus / writeConfig are not kept apart.  No
\* lock holds a thread back: whenever a thread has a port call left it can make
\* it, wherever the other thread is.  A transfer that goes anywhere but to the
\* address its transaction asked for has had a port call of the other thread
\* between its first addressing write and the transfer; the state
\* TornTransferSeen shows that such a transfer happens.
UnsyncUnsafe ==
    \A t \in Threads :
        /\ (threads[t].op # "idle" /\ threads[t].done < MaxThreadTransactions)
              => ENABLED ThreadStep(t)
        /\ (threads[t].done > 0 /\ threads[t].landed # threads[t].wanted)
              => threads[t].wasMixed

\* The first byte of the configuration's fan1_curve has been written to the
\* address that the other thread's read selected.
TornTransferSeen ==
    /\ threads[1].op = "readStatus"
    /\ threads[2].op = "writeConfig"
    /\ threads[2].done > 0
    /\ threads[2].wanted = FAN1_BASE
    /\ threads[2].landed = FAN1_RPM_LSB
    /\ threads[2].got = PatternConfig(1).fan1_curve[1]
    /\ MemGet(ec.mem, FAN1_RPM_LSB) = threads[2].got

\* C16: a direct_ec_read_array is not atomic as a whole.  When it has returned,
\* each element is the byte EC memory held at the element's address at the
\* time of the element's own transaction.  The state TornReadSeen shows a
\* result that is neither the table from before the other agent's change nor
\* the table from after it.
ElementsFromOwnTime ==
    (lastOp = "direct_ec_read_array" /\ ret /\ ~reader.busy)
        => /\ Len(reader.held) = Len(ecBuffer)
           /\ \A k \in 1..Len(ecBuffer) : ecBuffer[k] = reader.held[k]

TornReadSeen ==
    /\ lastOp = "direct_ec_read_array"
    /\ ret
    /\ ~reader.busy
    /\ Len(ecBuffer) = 3
    /\ reader.changes = 1
    /\ \E k \in 1..3 : ecBuffer[k] # reader.before[k]
    /\ \E k \in 1..3 : ecBuffer[k] # reader.after[k]
    /\ \E k \in 1..3 : reader.before[k] # 0

\* C17: the percentage readStatus derives from a 16-bit fan counter r and the
\* fan's maximum M (5200, 5000) is floor(r * 100 / M), not clamped: 50 for
\* r = 2600 and M = 5200, 0 for r = 0, more than 100 for every r above M.
PercentIsFloor ==
    lastOp = "percentages"
        => /\ statusData.fan1_percent = (statusData.fan1_speed * 100) \div MAX_FAN1_RPM
           /\ statusData.fan2_percent = (statusData.fan2_speed * 100) \div MAX_FAN2_RPM
           /\ statusData.fan1_speed = 2600 => statusData.fan1_percent = 50
           /\ statusData.fan1_speed = 0 => statusData.fan1_percent = 0
           /\ statusData.fan2_speed = 0 => statusData.fan2_percent = 0
           /\ statusData.fan1_speed > MAX_FAN1_RPM => statusData.fan1_percent > 100
           /\ statusData.fan2_speed > MAX_FAN2_RPM => statusData.fan2_percent > 100

\* The four registers that hold the acceleration / deceleration in force.
LiveRegisters == {FAN1_CUR_ACC, FAN2_CUR_ACC, FAN1_CUR_DEC, FAN2_CUR_DEC}

\* The addresses of the write transactions of a trace of whole transactions.
WrittenAddresses(tr) ==
    {BlockAddress(tr, k) : k \in {b \in 0..((Len(tr) \div 12) - 1) :
                                      tr[12 * b + 12][1] = "W"}}

\* C18: when writeConfig, given valid tables on an initialized controller,
\* reads from the current-breakpoint-index register a byte that is no index
\* into the ten-entry tables (10 or more), it still returns true, leaves a
\* warning in lastError, and writes none of the four live registers; a
\* readStatus that follows succeeds and leaves them untouched too (it reports
\* the index and the tables just written).
BadIndexSkipped ==
    [][/\ (/\ lastOp' = "writeConfig"
           /\ fc.winring_init_ok
           /\ SizesValid(configData')
           /\ MemGet(ec.mem, FAN_CUR_POINT) >= TableSize)
          => /\ ret'
             /\ fc'.lastError = WarnDecIndex
             /\ WholeTransactions(trace')
             /\ WrittenAddresses(trace') \cap LiveRegisters = {}
             /\ \A a \in LiveRegisters : MemGet(ec'.mem, a) = MemGet(ec.mem, a)
       /\ (/\ lastOp' = "readStatus"
           /\ lastOp = "writeConfig"
           /\ ret
           /\ MemGet(ec.mem, FAN_CUR_POINT) >= TableSize)
          => /\ ret'
             /\ WrittenAddresses(trace') = {}
             /\ \A a \in LiveRegisters : MemGet(ec'.mem, a) = MemGet(ec.mem, a)
             /\ statusData'.fan_cur_point = MemGet(ec.mem, FAN_CUR_POINT)
             /\ statusData'.tables.acc_time = configData.acc_time
             /\ statusData'.tables.dec_time = configData.dec_time]_vars

BadIndexSeen ==
    /\ lastOp = "writeConfig"
    /\ ret
    /\ configData = PatternConfig(1)
    /\ MemGet(ec.mem, FAN_CUR_POINT) = 10
    /\ fc.lastError = WarnDecIndex
    /\ Len(trace) = 12 * 105

\* The addresses of the ten tables of ten bytes.
TableAddresses ==
    {U16(base + i) :
        base \in {FAN1_BASE, FAN2_BASE, FAN_ACC_BASE, FAN_DEC_BASE, CPU_TEMP,
                  CPU_TEMP_HYST, GPU_TEMP, GPU_TEMP_HYST, VRM_TEMP, VRM_TEMP_HYST},
        i \in 0..(TableSize - 1)}

\* Block k (from 0) of tr is a transaction of this kind at this address.
BlockIs(tr, k, kind, a) ==
    /\ Len(tr) >= 12 * (k + 1)
    /\ tr[12 * k + 12][1] = kind
    /\ BlockAddress(tr, k) = a

\* C19: a writeConfig that succeeds (valid tables, initialized controller)
\* first makes the 100 write transactions of the ten tables, then for fan 1
\* and then for fan 2 reads the target curve value and writes it to the target
\* duty, then reads the current breakpoint index, and writes live registers
\* last: no target-duty or live-register write comes before a table write.
WriteConfigOrder ==
    [][(lastOp' = "writeConfig" /\ ret')
          => /\ WholeTransactions(trace')
             /\ Len(trace') \in {12 * 105, 12 * 109}
             /\ \A k \in 0..99 : trace'[12 * k + 12][1] = "W"
             /\ {BlockAddress(trace', k) : k \in 0..99} = TableAddresses
             /\ BlockIs(trace', 100, "R", FAN1_TARGET_CURVE_VAL)
             /\ BlockIs(trace', 101, "W", FAN1_TARGET_DUTY)
             /\ trace'[12 * 101 + 12][3] = trace'[12 * 100 + 12][3]
             /\ BlockIs(trace', 102, "R", FAN2_TARGET_CURVE_VAL)
             /\ BlockIs(trace', 103, "W", FAN2_TARGET_DUTY)
             /\ trace'[12 * 103 + 12][3] = trace'[12 * 102 + 12][3]
             /\ BlockIs(trace', 104, "R", FAN_CUR_POINT)
             /\ \A k \in 105..((Len(trace') \div 12) - 1) :
                   /\ trace'[12 * k + 12][1] = "W"
                   /\ BlockAddress(trace', k) \in LiveRegisters]_vars

WriteConfigOrderSeen ==
    /\ lastOp = "writeConfig"
    /\ ret
    /\ configData = PatternConfig(1)
    /\ BlockIs(trace, 99, "W", FAN_DEC_BASE + 9)
    /\ BlockIs(trace, 101, "W", FAN1_TARGET_DUTY)
    /\ trace[12 * 101 + 12][3] = 30
    /\ BlockIs(trace, 104, "R", FAN_CUR_POINT)
    /\ BlockIs(trace, 108, "W", FAN2_CUR_DEC)

\* Block k (from 0) of tr is the write of byte v to address a.
BlockWrites(tr, k, a, v) == BlockIs(tr, k, "W", a) /\ tr[12 * k + 12][3] = v

\* C20: a writeConfig that succeeds and reads a byte k < 10 from the current
\* breakpoint index register writes acc_time[k] to the current acceleration
\* of fan 1 and of fan 2 and dec_time[k] to the current deceleration of fan 1
\* and of fan 2 (k counted from 0); after the call the four registers hold the
\* entries at k of the tables just written, and no warning is recorded.
LiveUpdate ==
    [][(/\ lastOp' = "writeConfig"
        /\ ret'
        /\ MemGet(ec.mem, FAN_CUR_POINT) < TableSize)
          => /\ Len(trace') = 12 * 109
             /\ BlockWrites(trace', 105, FAN1_CUR_ACC,
                            configData'.acc_time[MemGet(ec.mem, FAN_CUR_POINT) + 1])
             /\ BlockWrites(trace', 106, FAN2_CUR_ACC,
                            configData'.acc_time[MemGet(ec.mem, FAN_CUR_POINT) + 1])
             /\ BlockWrites(trace', 107, FAN1_CUR_DEC,
                            configData'.dec_time[MemGet(ec.mem, FAN_CUR_POINT) + 1])
             /\ BlockWrites(trace', 108, FAN2_CUR_DEC,
                            configData'.dec_time[MemGet(ec.mem, FAN_CUR_POINT) + 1])
             /\ \A a \in {FAN1_CUR_ACC, FAN2_CUR_ACC} :
                   MemGet(ec'.mem, a)
                     = MemGet(ec'.mem, FAN_ACC_BASE + MemGet(ec.mem, FAN_CUR_POINT))
             /\ \A a \in {FAN1_CUR_DEC, FAN2_CUR_DEC} :
                   MemGet(ec'.mem, a)
                     = MemGet(ec'.mem, FAN_DEC_BASE + MemGet(ec.mem, FAN_CUR_POINT))
             /\ fc'.lastError = ""]_vars

LiveUpdateSeen ==
    /\ lastOp = "writeConfig"
    /\ ret
    /\ configData = PatternConfig(1)
    /\ MemGet(ec.mem, FAN_CUR_POINT) = 9
    /\ MemGet(ec.mem, FAN1_CUR_ACC) = PatternConfig(1).acc_time[10]
    /\ MemGet(ec.mem, FAN2_CUR_ACC) = PatternConfig(1).acc_time[10]
    /\ MemGet(ec.mem, FAN1_CUR_DEC) = PatternConfig(1).dec_time[10]
    /\ MemGet(ec.mem, FAN2_CUR_DEC) = PatternConfig(1).dec_time[10]
    /\ PatternConfig(1).acc_time[10] # PatternConfig(1).dec_time[10]
    /\ PatternConfig(1).acc_time[10] # PatternConfig(1).acc_time[1]

\* The address of the k-th transaction (k from 0) of a readStatus: the two
\* counter bytes of fan 1 and of fan 2, the ten tables of ten bytes, the chip
\* identification and firmware version, the target duties and target curve
\* values, the current breakpoint index.
StatusOrder(k) ==
    IF k < 4
    THEN <<FAN1_RPM_LSB, FAN1_RPM_MSB, FAN2_RPM_LSB, FAN2_RPM_MSB>>[k + 1]
    ELSE IF k < 104
    THEN <<FAN1_BASE, FAN2_BASE, FAN_ACC_BASE, FAN_DEC_BASE, CPU_TEMP,
           CPU_TEMP_HYST, GPU_TEMP, GPU_TEMP_HYST, VRM_TEMP,
           VRM_TEMP_HYST>>[((k - 4) \div 10) + 1] + ((k - 4) % 10)
    ELSE <<ECHIPID1, ECHIPID2, ECHIPVER, FW_VER, FAN1_TARGET_DUTY,
           FAN2_TARGET_DUTY, FAN1_TARGET_CURVE_VAL, FAN2_TARGET_CURVE_VAL,
           FAN_CUR_POINT>>[k - 103]

\* C21: a readStatus on an initialized controller makes its reads in this
\* order: the counter of fan 1 (2 bytes), the counter of fan 2 (2 bytes), the
\* ten tables (10 bytes each), chip id 1, chip id 2, chip version, firmware
\* version, (the two target duties and the two target curve values,) and the
\* current breakpoint index as the last transaction of the call.
ReadStatusOrder ==
    [][(lastOp' = "readStatus" /\ fc.winring_init_ok)
          => /\ ret'
             /\ WholeTransactions(trace')
             /\ Len(trace') = 12 * 113
             /\ \A k \in 0..112 : BlockIs(trace', k, "R", StatusOrder(k))
             /\ BlockIs(trace', (Len(trace') \div 12) - 1, "R", FAN_CUR_POINT)]_vars

ReadStatusOrderSeen ==
    /\ lastOp = "readStatus"
    /\ ret
    /\ BlockIs(trace, 0, "R", FAN1_RPM_LSB)
    /\ BlockIs(trace, 103, "R", VRM_TEMP_HYST + 9)
    /\ BlockIs(trace, 107, "R", FW_VER)
    /\ BlockIs(trace, 112, "R", FAN_CUR_POINT)
    /\ statusData.fan_cur_point = 9
    /\ statusData.fan1_speed = 5200

-----------------------------------------------------------------------------
(* The bytes the port reads return.  Every register readStatus and          *)
(* writeConfig read is a different one, so a sequence of read bytes is an   *)
(* EC memory image.                                                         *)

\* The registers readStatus reads (writeConfig reads three of them).
ReadAddresses == {StatusAddress(1, n) : n \in 1..113}

ReadBytes == {0, 1, 10, 255}

CurPointBytes == {0, 9, 10, 255}

\* The image every read of which returns v, but the breakpoint index c.
EcImage(v, c) ==
    MemSet(IF v = 0 THEN <<>> ELSE [a \in ReadAddresses |-> v], FAN_CUR_POINT, c)

InitReads ==
    \E v \in ReadBytes, c \in CurPointBytes, s \in FirmwareSamples :
        LET r == initialize(Constructed(s), AllOk)
        IN Holds([r.w EXCEPT !.ec.mem = EcImage(v, c)], "initialize", r.ret)

NextReads == ReadStatus \/ WriteConfig

SpecReads == InitReads /\ [][NextReads]_vars

\* C22: on a Ready controller readStatus returns success, and writeConfig
\* with ten tables of length 10 returns success, whatever bytes the port
\* reads return (all of them 0 included); neither leaves an error message.
ReadsCannotFail ==
    [][/\ (lastOp' = "readStatus" /\ fc.winring_init_ok)
            => (ret' /\ fc'.lastError = "")
       /\ (lastOp' = "writeConfig" /\ fc.winring_init_ok /\ SizesValid(configData'))
            => ret']_vars

\* readStatus has succeeded with every port read returning 0.
AllZeroReadSeen ==
    /\ lastOp = "readStatus" /\ ret
    /\ statusData.chip_id1 = 0 /\ statusData.fw_ver = 0
    /\ statusData.fan1_speed = 0 /\ statusData.fan_cur_point = 0
    /\ \A a \in ReadAddresses : MemGet(ec.mem, a) = 0

\* The message of the step a failed initialize() stopped at, from the calls
\* it made.
InitializeFailureText(c) ==
    IF Count(c, "GetProcAddress") = 0 THEN ErrLoadWrapper
    ELSE IF Count(c, "LoadWinRing0") = 0 THEN ErrSymbols
    ELSE IF Count(c, "InitWinRing0") = 0 THEN ErrLoadWinRing0
    ELSE ErrInitWinRing0

\* C23: every initialize, readStatus or writeConfig that returns failure
\* leaves the message of that very failure (never an empty one, never the
\* message of an earlier operation) as the last error, and deinitialize,
\* which sets no message, leaves what getLastError returns as it was.
FailureReported ==
    [][/\ (lastOp' = "initialize" /\ ~ret')
            => (fc'.lastError = InitializeFailureText(calls') /\ fc'.lastError # "")
       /\ (lastOp' = "readStatus" /\ ~ret')
            => (~fc.winring_init_ok /\ fc'.lastError = ErrReadNotInit)
       /\ (lastOp' = "writeConfig" /\ ~ret')
            => fc'.lastError = (IF ~fc.winring_init_ok THEN ErrWriteNotInit
                                ELSE ErrInvalidConfig)
       /\ (lastOp' = "deinitialize") => fc'.lastError = fc.lastError]_vars

\* An initialize has failed at InitializeOls and getLastError returns the
\* message of that step.
FailureReportedSeen ==
    /\ lastOp = "initialize" /\ ~ret
    /\ Count(calls, "InitializeOls") = 1
    /\ getLastError = ErrInitWinRing0

-----------------------------------------------------------------------------
(* main(): the curve editor.  The plot points of a fan are kept as the set  *)
(* of its PlotPoint records: std::sort orders the vector by temperature,   *)
(* and the position in the vector only decides which drag handle shows     *)
(* which point.                                                            *)

\* Points dragged in all; the editor is not followed past them.
MaxDrags == 2

\* convertVecIntToVecU8(vec_int)
convertVecIntToVecU8(vec_int) ==
    [i \in 1..Len(vec_int) |->
        IF vec_int[i] < 0 THEN 0 ELSE IF vec_int[i] > 255 THEN 255 ELSE vec_int[i]]

\* convertVecU8ToVecInt(vec_u8)
convertVecU8ToVecInt(vec_u8) == [i \in 1..Len(vec_u8) |-> vec_u8[i]]

Min2(a, b) == IF a < b THEN a ELSE b

Max2(a, b) == IF a > b THEN a ELSE b

\* createPlotPoints(temps, curve_points_scaled)
createPlotPoints(temps, curve_points_scaled) ==
    {[temp |-> temps[i + 1], rpm |-> curve_points_scaled[i + 1] * 100,
      original_index |-> i] :
        i \in 0..(Min2(Len(temps), Len(curve_points_scaled)) - 1)}

\* extractDataFromPlotPoints(points, temps, curve_points_scaled): the two
\* vectors after it.  (The tables are of one length here.)
extractDataFromPlotPoints(points, temps, curve_points_scaled) ==
    [temps |->
        [k \in 1..Len(temps) |->
            IF \E p \in points : p.original_index = k - 1
            THEN (CHOOSE p \in points : p.original_index = k - 1).temp
            ELSE 0],
     curve_points_scaled |->
        [k \in 1..Len(curve_points_scaled) |->
            IF \E p \in points : p.original_index = k - 1
            THEN (CHOOSE p \in points : p.original_index = k - 1).rpm \div 100
            ELSE 0]]

\* static_cast<int>(x + 0.5) for the double x = h / 2: the conversion
\* truncates toward zero.
RoundedCoordinate(h) ==
    IF h + 1 >= 0 THEN (h + 1) \div 2 ELSE -((-(h + 1)) \div 2)

\* The lower-temperature vector after the point original_idx was dragged to
\* temp: the next point's lower bound follows, 3 degrees below.
DragLower(lower, original_idx, temp) ==
    IF original_idx + 1 < Len(lower)
    THEN [lower EXCEPT ![original_idx + 2] = Max2(0, temp - 3)]
    ELSE lower

\* Where a drag handle is dropped, in half degrees and half RPM: left of the
\* axis, at 30 and at 35.5 degrees, right of the axis; at 2599.5 RPM.
DragTemps == {-3, 60, 71, 300}

DragRpms == {5199}

\* The points of each fan that are dragged, by original_index.
DraggedPoints == [fan1 |-> {1, 9}, fan2 |-> {0}]

\* A programmed curve: upper bounds 40, 45, .. 85 degrees, each lower bound 3
\* degrees below the upper bound of the point before it, duties 20, 25, ..
ProgrammedTable(t) ==
    [i \in 1..TableSize |->
        IF t \in {"cpu_upper_temp", "gpu_upper_temp", "vrm_upper_temp"}
        THEN 35 + 5 * i
        ELSE IF t \in {"cpu_lower_temp", "gpu_lower_temp", "vrm_lower_temp"}
        THEN (IF i = 1 THEN 0 ELSE 27 + 5 * i)
        ELSE IF t \in {"fan1_curve", "fan2_curve"} THEN 15 + 5 * i
        ELSE 2]

\* The EC memory mem with the programmed curve in its tables.
ProgrammedMemory(mem) ==
    LET cells == {<<ConfigTableWrites[n][1] + (i - 1),
                    ProgrammedTable(ConfigTableWrites[n][2])[i]>> :
                      n \in 1..Len(ConfigTableWrites), i \in 1..TableSize}
        set == {c \in cells : c[2] # 0}
    IN [a \in {c[1] : c \in set} |-> (CHOOSE c \in set : c[1] = a)[2]] @@ mem

\* main() up to its loop, on a controller whose initialize() and first
\* readStatus() succeed: the editor's copies of the configuration read.
EditorLoaded(sd) ==
    [drags |-> 0,
     statusMessage |-> "Controller Initialized. Status/Config loaded.",
     currentConfig |-> sd.tables,
     editableConfig |-> sd.tables,
     fan1_curve_int |-> convertVecU8ToVecInt(sd.tables["fan1_curve"]),
     fan2_curve_int |-> convertVecU8ToVecInt(sd.tables["fan2_curve"]),
     cpu_upper_temp_int |-> convertVecU8ToVecInt(sd.tables["cpu_upper_temp"]),
     gpu_upper_temp_int |-> convertVecU8ToVecInt(sd.tables["gpu_upper_temp"]),
     fan1_acc_time_int |-> sd.tables["acc_time"][1],
     fan1_dec_time_int |-> sd.tables["dec_time"][1],
     cpu_lower_temp_int |-> convertVecU8ToVecInt(sd.tables["cpu_lower_temp"]),
     gpu_lower_temp_int |-> convertVecU8ToVecInt(sd.tables["gpu_lower_temp"]),
     fan1_plot_points |->
         createPlotPoints(convertVecU8ToVecInt(sd.tables["cpu_upper_temp"]),
                          convertVecU8ToVecInt(sd.tables["fan1_curve"])),
     fan2_plot_points |->
         createPlotPoints(convertVecU8ToVecInt(sd.tables["gpu_upper_temp"]),
                          convertVecU8ToVecInt(sd.tables["fan2_curve"]))]

InitEditor ==
    \E s \in FirmwareSamples :
      \E w0 \in {initialize(Constructed(s), AllOk).w} :
        \E m \in {ProgrammedMemory(w0.ec.mem)} :
          \E r \in {readStatus([w0 EXCEPT !.calls = <<>>, !.ec.mem = m],
                               FanStatusData_ctor)} :
           /\ fc = r.w.fc /\ wr = r.w.wr /\ proc = r.w.proc /\ ec = r.w.ec
           /\ trace = r.w.trace /\ calls = r.w.calls /\ stale = r.w.stale
           /\ lastOp = "readStatus"
           /\ ret = r.ret
           /\ statusData = r.sd
           /\ configData = FanConfigData_ctor
           /\ ecAddr = 0
           /\ ecData = 0
           /\ ecBuffer = <<>>
           /\ threads = [t \in {1, 2} |-> [op |-> "idle", done |-> 0, pc |-> 0,
                                           mixed |-> FALSE, wanted |-> 0,
                                           landed |-> 0, got |-> 0,
                                           wasMixed |-> FALSE]]
           /\ reader = [busy |-> FALSE, i |-> 0, changes |-> 0,
                        before |-> <<>>, held |-> <<>>, after |-> <<>>]
           /\ gui = EditorLoaded(r.sd)
           /\ wrapperUse = NoUse
           /\ call = NoCall

\* The DragPoint handler of the fan 1 plot: the point p dropped at (ht, hr).
DragPointFan1 ==
    /\ gui.drags < MaxDrags
    /\ \E p \in gui.fan1_plot_points, ht \in DragTemps, hr \in DragRpms :
         /\ p.original_index \in DraggedPoints.fan1
         /\ LET temp == Max2(0, Min2(127, RoundedCoordinate(ht)))
                rpm == Max2(0, Min2(MAX_FAN1_RPM, RoundedCoordinate(hr)))
            IN gui' = [gui EXCEPT
                         !.drags = @ + 1,
                         !.fan1_plot_points =
                             (@ \ {p}) \cup {[p EXCEPT !.temp = temp, !.rpm = rpm]},
                         !.cpu_lower_temp_int =
                             DragLower(@, p.original_index, temp)]
    /\ lastOp' = "DragPoint"
    /\ UNCHANGED <<fc, wr, proc, ec, trace, calls, stale, ret, statusData,
                   configData, ecAddr, ecData, ecBuffer, threads, reader, wrapperUse, call>>

\* The DragPoint handler of the fan 2 plot.
DragPointFan2 ==
    /\ gui.drags < MaxDrags
    /\ \E p \in gui.fan2_plot_points, ht \in DragTemps, hr \in DragRpms :
         /\ p.original_index \in DraggedPoints.fan2
         /\ LET temp == Max2(0, Min2(127, RoundedCoordinate(ht)))
                rpm == Max2(0, Min2(MAX_FAN2_RPM, RoundedCoordinate(hr)))
            IN gui' = [gui EXCEPT
                         !.drags = @ + 1,
                         !.fan2_plot_points =
                             (@ \ {p}) \cup {[p EXCEPT !.temp = temp, !.rpm = rpm]},
                         !.gpu_lower_temp_int =
                             DragLower(@, p.original_index, temp)]
    /\ lastOp' = "DragPoint"
    /\ UNCHANGED <<fc, wr, proc, ec, trace, calls, stale, ret, statusData,
                   configData, ecAddr, ecData, ecBuffer, threads, reader, wrapperUse, call>>

\* The tables "Apply Config" hands to writeConfig.
AppliedConfig(g) ==
    LET e1 == extractDataFromPlotPoints(g.fan1_plot_points, g.cpu_upper_temp_int,
                                        g.fan1_curve_int)
        e2 == extractDataFromPlotPoints(g.fan2_plot_points, g.gpu_upper_temp_int,
                                        g.fan2_curve_int)
    IN [g.editableConfig EXCEPT
          !["fan1_curve"] = convertVecIntToVecU8(e1.curve_points_scaled),
          !["fan2_curve"] = convertVecIntToVecU8(e2.curve_points_scaled),
          !["cpu_upper_temp"] = convertVecIntToVecU8(e1.temps),
          !["gpu_upper_temp"] = convertVecIntToVecU8(e2.temps),
          !["cpu_lower_temp"] = convertVecIntToVecU8(g.cpu_lower_temp_int),
          !["gpu_lower_temp"] = convertVecIntToVecU8(g.gpu_lower_temp_int),
          !["acc_time"] = IF Len(@) > 0
                          THEN [@ EXCEPT ![1] = g.fan1_acc_time_int % 256] ELSE @,
          !["dec_time"] = IF Len(@) > 0
                          THEN [@ EXCEPT ![1] = g.fan1_dec_time_int % 256] ELSE @]

\* The verification of "Apply Config" without the two comparisons of the
\* fan duty tables.
VerifiedTables_temps ==
    {"cpu_upper_temp", "cpu_lower_temp", "gpu_upper_temp", "gpu_lower_temp"}

\* The tables the verification step of "Apply Config" compares.
VerifiedTables ==
    {"fan1_curve", "fan2_curve", "cpu_upper_temp", "cpu_lower_temp",
     "gpu_upper_temp", "gpu_lower_temp"}

\* The EC firmware during the SDL_Delay(100) of "Apply Config": it stores
\* limit in every byte of the fan 1 duty table that is above limit.
Clamped(w, limit) ==
    [w EXCEPT !.ec.mem =
        [a \in {b \in FAN1_BASE..(FAN1_BASE + TableSize - 1) : MemGet(@, b) > limit}
            |-> limit] @@ @]

\* The "Apply Config" button: the configuration is written and, after the
\* delay in which the firmware clamps to limit, read back and compared.
ApplyConfigOver(limit) ==
    /\ \E cfg \in {AppliedConfig(gui)} :
       \E r \in {writeConfig(World, cfg)} :
       \E v \in {IF r.ret THEN readStatus(Clamped(r.w, limit), FanStatusData_ctor)
                  ELSE [sd |-> statusData, ret |-> FALSE, w |-> r.w]} :
       \E e1 \in {extractDataFromPlotPoints(gui.fan1_plot_points,
                                             gui.cpu_upper_temp_int,
                                             gui.fan1_curve_int)} :
       \E e2 \in {extractDataFromPlotPoints(gui.fan2_plot_points,
                                             gui.gpu_upper_temp_int,
                                             gui.fan2_curve_int)} :
       \E g \in {[gui EXCEPT
                    !.editableConfig = cfg,
                    !.cpu_upper_temp_int = e1.temps,
                    !.gpu_upper_temp_int = e2.temps,
                    !.fan1_curve_int = e1.curve_points_scaled,
                    !.fan2_curve_int = e2.curve_points_scaled]} :
         /\ configData' = cfg
         /\ Commit(v.w, "writeConfig", r.ret)
         /\ IF ~r.ret
            THEN /\ gui' = [g EXCEPT !.statusMessage = "Error writing config"]
                 /\ UNCHANGED statusData
            ELSE IF ~v.ret
            THEN /\ gui' = [g EXCEPT !.statusMessage =
                               "Config written, but failed to read back for verification"]
                 /\ UNCHANGED statusData
            ELSE IF \A t \in VerifiedTables : cfg[t] = v.sd.tables[t]
            THEN /\ gui' = [g EXCEPT
                              !.statusMessage = "Config written and verified successfully.",
                              !.currentConfig = cfg]
                 /\ statusData' = v.sd
            ELSE /\ gui' = [g EXCEPT !.statusMessage =
                               "Config written, but VERIFICATION FAILED"]
                 /\ UNCHANGED statusData
    /\ UNCHANGED <<ecAddr, ecData, ecBuffer, threads, reader, wrapperUse, call>>

\* "Apply Config" over an EC that keeps what was written.
ApplyConfig == ApplyConfigOver(255)

NextEditor == DragPointFan1 \/ DragPointFan2 \/ ApplyConfig

SpecEditor == InitEditor /\ [][NextEditor]_vars

\* Zones and their threshold tables.
Zones == {<<"cpu_lower_temp", "cpu_upper_temp">>,
          <<"gpu_lower_temp", "gpu_upper_temp">>,
          <<"vrm_lower_temp", "vrm_upper_temp">>}

\* C24: in every configuration writeConfig accepts and writes, the curve
\* editor's after dragging points included, each lower threshold is at most
\* the upper threshold of the same zone and index.
ThresholdInvariant ==
    [][(lastOp' = "writeConfig" /\ ret')
          => \A z \in Zones : \A i \in 1..TableSize :
                configData'[z[1]][i] <= configData'[z[2]][i]]_vars

\* The acquisition steps of initialize() in source order, as the calls log
\* names them: load the wrapper library, resolve its symbols, load(), init().
AcquisitionSteps == <<"LoadLibraryA", "GetProcAddress", "LoadWinRing0", "InitWinRing0">>

\* Where c occurs first in seq (0: nowhere).
FirstAt(seq, c) ==
    IF Count(seq, c) = 0 THEN 0
    ELSE CHOOSE i \in DOMAIN seq :
            seq[i] = c /\ \A j \in 1..(i - 1) : seq[j] # c

\* The transactions of tr, by kind and address.
BlockKinds(tr) ==
    {<<tr[12 * k + 12][1], BlockAddress(tr, k)>> : k \in 0..((Len(tr) \div 12) - 1)}

\* C25: one initialize call attempts each acquisition step at most once and
\* in source order, a step is attempted only if every step before it was, the
\* call succeeds only when all four were attempted, a failing call has tried
\* nothing after the step its message names, and init() is entered only with
\* the driver library loaded; readStatus and writeConfig make every
\* transaction once: 113 and 105 or 109 of them, no two alike.
NoRetries ==
    [][/\ (lastOp' = "initialize" /\ ~fc.winring_init_ok)
            => /\ \A k \in 1..4 : Count(calls', AcquisitionSteps[k]) <= 1
               /\ Count(calls', "LoadLibraryA") = 1
               /\ \A k \in 2..4 :
                     Count(calls', AcquisitionSteps[k]) = 1
                        => /\ Count(calls', AcquisitionSteps[k - 1]) = 1
                           /\ FirstAt(calls', AcquisitionSteps[k - 1])
                                 < FirstAt(calls', AcquisitionSteps[k])
               /\ ret' => Count(calls', "InitWinRing0") = 1
               /\ ~ret' => fc'.lastError = InitializeFailureText(calls')
               /\ Count(calls', "InitWinRing0") = 1
                     => (ret' \/ Count(calls', "InitializeOls") = 1)
               /\ Count(calls', "LoadLibraryW") <= 1
               /\ Count(calls', "InitializeOls") <= 1
       /\ (lastOp' = "readStatus" /\ fc.winring_init_ok)
            => /\ Len(trace') = 12 * 113
               /\ Cardinality(BlockKinds(trace')) = 113
       /\ (lastOp' = "writeConfig" /\ ret')
            => /\ Len(trace') \in {12 * 105, 12 * 109}
               /\ Cardinality(BlockKinds(trace')) = Len(trace') \div 12]_vars

\* An initialize has stopped at load(): the wrapper library was loaded and
\* its symbols resolved once each, init() was not tried.
NoRetriesSeen ==
    /\ lastOp = "initialize" /\ ~ret
    /\ Count(calls, "LoadLibraryA") = 1
    /\ Count(calls, "LoadWinRing0") = 1
    /\ Count(calls, "LoadLibraryW") = 1
    /\ Count(calls, "InitWinRing0") = 0
    /\ getLastError = ErrLoadWinRing0

-----------------------------------------------------------------------------
(* winring_wrapper.dll used directly: its exported functions called in any  *)
(* order by a client that has the DLL mapped.                               *)

\* Driver loads counted; LoadWinRing0 is not followed past them.
MaxLoads == 2

\* Ports and bytes the port functions are tried with.
WrapperPorts == {EC_ADDR_PORT, EC_DATA_PORT, 128}

WrapperBytes == {46, 47, 17}

InitWrapper ==
    Holds([Constructed([cur |-> 3, rpm1 |-> 0, rpm2 |-> 0, tv1 |-> 0, tv2 |-> 0])
             EXCEPT !.proc.wrapperRef = 1],
          "LoadLibraryA", TRUE)

\* LoadWinRing0()
CallLoadWinRing0 ==
    /\ wrapperUse.loads < MaxLoads
    /\ \E drvOk \in BOOLEAN, drvSyms \in SymbolChoices(DriverSymbols) :
         LET r == LoadWinRing0(World, drvOk, drvSyms)
             loaded == Count(r.w.calls, "LoadLibraryW") = 1 /\ drvOk
         IN /\ Commit(r.w, "LoadWinRing0", r.ret)
            /\ wrapperUse' = [wrapperUse EXCEPT
                                !.loads = IF loaded THEN @ + 1 ELSE @,
                                !.kept = IF loaded /\ r.ret THEN @ + 1 ELSE @]
    /\ UNCHANGED <<statusData, configData, ecAddr, ecData, ecBuffer, threads,
                   reader, gui, call>>

\* InitWinRing0()
CallInitWinRing0 ==
    /\ \E olsOk \in BOOLEAN :
         LET r == InitWinRing0(World, olsOk)
         IN /\ Commit(r.w, "InitWinRing0", r.ret)
            /\ wrapperUse' = [wrapperUse EXCEPT
                                !.opens = IF Count(r.w.calls, "InitializeOls") = 1
                                             /\ olsOk
                                          THEN @ + 1 ELSE @]
    /\ UNCHANGED <<statusData, configData, ecAddr, ecData, ecBuffer, threads,
                   reader, gui, call>>

\* DeinitWinRing0()
CallDeinitWinRing0 ==
    /\ Commit(DeinitWinRing0(World), "DeinitWinRing0", ret)
    /\ wrapperUse' = NoUse
    /\ UNCHANGED <<statusData, configData, ecAddr, ecData, ecBuffer, threads,
                   reader, gui, call>>

\* ReadPort(port): ecAddr is the port, ecData the byte returned.
CallReadPort ==
    /\ \E port \in WrapperPorts :
         LET r == ReadPort(World, port)
         IN /\ Commit(r.w, "ReadPort", ret)
            /\ ecAddr' = port
            /\ ecData' = r.val
    /\ UNCHANGED <<statusData, configData, ecBuffer, threads, reader, gui,
                   wrapperUse, call>>

\* WritePort(port, value): ecAddr is the port, ecData the byte given.
CallWritePort ==
    /\ \E port \in WrapperPorts, value \in WrapperBytes :
         /\ Commit(WritePort(World, port, value), "WritePort", ret)
         /\ ecAddr' = port
         /\ ecData' = value
    /\ UNCHANGED <<statusData, configData, ecBuffer, threads, reader, gui,
                   wrapperUse, call>>

NextWrapper ==
    \/ CallLoadWinRing0
    \/ CallInitWinRing0
    \/ CallDeinitWinRing0
    \/ CallReadPort
    \/ CallWritePort

SpecWrapper == InitWrapper /\ [][NextWrapper]_vars

\* What C26 says of the single calls: a LoadWinRing0 on a loaded wrapper
\* returns TRUE and loads nothing, an InitWinRing0 on an initialized wrapper
\* returns TRUE and does not call InitializeOls, an InitWinRing0 on a wrapper
\* that is not loaded returns FALSE and does not call the driver.
CallsIdempotent ==
    /\ (lastOp' = "LoadWinRing0" /\ wr.winRingLoaded)
          => (ret' /\ Count(calls', "LoadLibraryW") = 0 /\ wr' = wr /\ proc' = proc)
    /\ (lastOp' = "InitWinRing0" /\ wr.winRingInitialized)
          => (ret' /\ Count(calls', "InitializeOls") = 0 /\ wr' = wr /\ proc' = proc)
    /\ (lastOp' = "InitWinRing0" /\ ~wr.winRingLoaded)
          => (~ret' /\ Count(calls', "InitializeOls") = 0 /\ wr' = wr
              /\ proc' = proc /\ stale' = stale)

\* C26 as claimed: the single calls are idempotent and ordered, and between
\* two DeinitWinRing0 calls the driver library is loaded at most once and
\* InitializeOls succeeds at most once.
LoadedAtMostOnce ==
    [][CallsIdempotent /\ wrapperUse'.loads <= 1 /\ wrapperUse'.opens <= 1]_vars

\* C26, amended: the single calls are idempotent and ordered, and between two
\* DeinitWinRing0 calls LoadWinRing0 keeps a driver library it loaded at most
\* once, the wrapper never holds more than one reference to it, and
\* InitializeOls succeeds at most once.
HeldAtMostOnce ==
    [][/\ CallsIdempotent
       /\ wrapperUse'.kept <= 1
       /\ proc'.driverRef <= 1
       /\ wrapperUse'.opens <= 1]_vars

\* A LoadWinRing0 on a loaded and initialized wrapper has returned TRUE
\* without a LoadLibraryW.
HeldAtMostOnceSeen ==
    /\ lastOp = "LoadWinRing0" /\ ret
    /\ Count(calls, "LoadLibraryW") = 0
    /\ wr.winRingLoaded /\ wr.winRingInitialized
    /\ wrapperUse = [loads |-> 1, kept |-> 1, opens |-> 1]

\* C27: while the wrapper is not initialized, ReadPort returns 0 for every
\* port and WritePort reaches no driver and no port; neither changes anything
\* a caller could take for an error (the wrapper's globals, its load error
\* included, stay as they were).  An initialized ReadPort returns the byte the
\* port supplies, 0 included, and leaves the same: the caller gets one byte
\* in both cases and nothing else.
SentinelWhenUnavailable ==
    [][/\ (lastOp' = "ReadPort" /\ ~wr.winRingInitialized)
            => (ecData' = 0 /\ ec' = ec /\ wr' = wr /\ proc' = proc
                /\ stale' = stale /\ ret' = ret /\ calls' = <<>>)
       /\ (lastOp' = "WritePort" /\ ~wr.winRingInitialized)
            => (ec' = ec /\ wr' = wr /\ proc' = proc /\ stale' = stale
                /\ ret' = ret /\ calls' = <<>>)
       /\ (lastOp' = "ReadPort" /\ wr.winRingInitialized)
            => (ecData' = EcPortRead(ec, ecAddr') /\ ec' = ec /\ wr' = wr
                /\ proc' = proc /\ ret' = ret /\ calls' = <<>>)]_vars

\* After DeinitWinRing0 a ReadPort has returned 0 from a port that holds
\* another byte.
SentinelSeen ==
    /\ lastOp = "ReadPort"
    /\ ~wr.winRingInitialized
    /\ ecData = 0
    /\ EcPortRead(ec, ecAddr) # 0

-----------------------------------------------------------------------------
(* readStatus / writeConfig port call by port call.  Both are sequential    *)
(* code on the caller's thread: each port call is made when the one before  *)
(* it has returned, and the operation returns after its last one.           *)
(* A port call is a call into the driver, which may not return.             *)

\* Operations followed in one run.
MaxOps == 1

\* The operations started: readStatus, and writeConfig with valid tables.
CallChoices ==
    {<<"readStatus", FanConfigData_ctor>>}
        \cup {<<"writeConfig", cfg>> : cfg \in ValidConfigs}

\* The operation c run to its end: its result, the port calls it makes.
CallResult(c) ==
    IF c[1] = "readStatus" THEN readStatus(World, FanStatusData_ctor)
    ELSE [sd |-> FanStatusData_ctor, ret |-> writeConfig(World, c[2]).ret,
          w |-> writeConfig(World, c[2]).w]

\* What the operation under way hands back when it returns.
Outcome(r) ==
    [sd |-> r.sd, ret |-> r.ret, fc |-> r.w.fc, calls |-> r.w.calls,
     mem |-> r.w.ec.mem]

\* An operation that gives up on a port call that does not return.
MayReturn_timeout(c) == c.hung \/ c.n = Len(c.plan)

\* The operation under way has made its last port call and that has returned:
\* neither function has another way out of its try block.
MayReturn(c) == ~c.hung /\ c.n = Len(c.plan)

InitCalls ==
    \E s \in FirmwareSamples :
        LET r == initialize(Constructed(s), AllOk)
        IN Holds([r.w EXCEPT !.calls = <<>>], "initialize", r.ret)

\* The caller enters readStatus or writeConfig.
OperationEnter ==
    /\ call.op = "idle"
    /\ call.ops < MaxOps
    /\ \E c \in CallChoices :
         \E r \in {CallResult(c)} :
            /\ call' = [op |-> c[1], ops |-> call.ops + 1, n |-> 0,
                        hung |-> FALSE,
                        plan |-> r.w.trace, result |-> Outcome(r)]
            /\ configData' = c[2]
    /\ trace' = <<>>
    /\ UNCHANGED <<fc, wr, proc, ec, calls, stale, lastOp, ret, statusData,
                   ecAddr, ecData, ecBuffer, threads, reader, gui, wrapperUse>>

\* The next port call is made and returns.
PortCall ==
    /\ call.op # "idle"
    /\ ~call.hung
    /\ call.n < Len(call.plan)
    /\ \E e \in {call.plan[call.n + 1]} :
         \E w \in {IF e[1] = "W"
                   THEN write_io_port_byte([World EXCEPT !.trace = trace],
                                           e[2], e[3])
                   ELSE read_io_port_byte([World EXCEPT !.trace = trace],
                                          e[2]).w} :
            /\ ec' = w.ec
            /\ trace' = w.trace
    /\ call' = [call EXCEPT !.n = @ + 1]
    /\ UNCHANGED <<fc, wr, proc, calls, stale, lastOp, ret, statusData,
                   configData, ecAddr, ecData, ecBuffer, threads, reader, gui,
                   wrapperUse>>

\* The next port call is made and the driver does not return from it.
PortCallHangs ==
    /\ call.op # "idle"
    /\ ~call.hung
    /\ call.n < Len(call.plan)
    /\ call' = [call EXCEPT !.hung = TRUE]
    /\ UNCHANGED <<fc, wr, proc, ec, trace, calls, stale, lastOp, ret,
                   statusData, configData, ecAddr, ecData, ecBuffer, threads,
                   reader, gui, wrapperUse>>

\* The operation returns to its caller.
OperationReturn ==
    /\ call.op # "idle"
    /\ MayReturn(call)
    /\ Commit([World EXCEPT !.fc = call.result.fc, !.calls = call.result.calls,
                            !.trace = trace],
              call.op, call.result.ret)
    /\ statusData' = call.result.sd
    /\ call' = [NoCall EXCEPT !.ops = call.ops]
    /\ UNCHANGED <<configData, ecAddr, ecData, ecBuffer, threads, reader, gui,
                   wrapperUse>>

NextCalls == OperationEnter \/ PortCall \/ PortCallHangs \/ OperationReturn

SpecCalls == InitCalls /\ [][NextCalls]_vars

\* The thread inside an operation keeps running: unless a port call hangs,
\* the next one is made, and after the last one the operation returns.
SpecCallsLive ==
    /\ SpecCalls
    /\ WF_vars(PortCall)
    /\ WF_vars(OperationReturn)

\* A port call of the operation under way does not return.
Blocked == call.op # "idle" /\ call.hung

\* C28: an operation makes at most 12 * 113 port calls, the number fixed by
\* the operation (113 transactions for readStatus, 105 or 109 for writeConfig)
\* whatever the tables and the bytes read; having made them as the code does,
\* it returns; every operation entered returns unless one of its port calls
\* does not return, and from then on it never returns.
TerminatesOrBlocks ==
    /\ [](call.op # "idle"
            => /\ call.n <= 12 * 113
               /\ Len(call.plan) = (IF call.op = "readStatus" THEN 12 * 113
                                    ELSE IF MemGet(ec.mem, FAN_CUR_POINT) < TableSize
                                    THEN 12 * 109 ELSE 12 * 105)
               /\ MayReturn(call)
                    => (trace = call.plan /\ ec.mem = call.result.mem))
    /\ (call.op # "idle") ~> (call.op = "idle" \/ Blocked)
    /\ [][Blocked => Blocked']_vars

\* A writeConfig has returned after its 109 transactions, one port call after
\* the other.
TerminatesSeen ==
    /\ call.op = "idle" /\ call.ops = 1
    /\ lastOp = "writeConfig" /\ ret
    /\ Len(trace) = 12 * 109

\* The eleven port writes that address a: (port, byte) in order.  Each
\* register select is 0x2E to port 0x4E, then the register number to 0x4F.
AddressWrites(a) ==
    << <<78, 46>>, <<79, 17>>, <<78, 47>>, <<79, a \div 256>>,
       <<78, 46>>, <<79, 16>>, <<78, 47>>, <<79, a % 256>>,
       <<78, 46>>, <<79, 18>>, <<78, 47>> >>

\* Block k of tr is exactly one transaction of the kind at a: the eleven
\* addressing writes, then one read of (kind "R") or one write to (kind "W")
\* port 0x4F.
ExactTransaction(tr, k, kind, a) ==
    /\ \A j \in 1..11 :
          tr[12 * k + j][1] = "W"
             /\ <<tr[12 * k + j][2], tr[12 * k + j][3]>> = AddressWrites(a)[j]
    /\ tr[12 * k + 12][1] = kind
    /\ tr[12 * k + 12][2] = 79

\* The kind of the k-th transaction of a writeConfig (k counted from 0): the
\* two target curve values and the breakpoint index are read, all else written.
ConfigKind(k) == IF k \in {100, 102, 104} THEN "R" ELSE "W"

\* C29: every port call the controller makes is to port 0x4E or 0x4F; every
\* transaction is the eleven addressing writes in the order (0x4E<-0x2E,
\* 0x4F<-0x11, 0x4E<-0x2F, 0x4F<-high byte), (0x4E<-0x2E, 0x4F<-0x10,
\* 0x4E<-0x2F, 0x4F<-low byte), (0x4E<-0x2E, 0x4F<-0x12, 0x4E<-0x2F) followed
\* by one call on 0x4F: a read makes 11 port writes and 1 port read, a write
\* 12 port writes and no read.
ExactPortTrace ==
    [][/\ \A i \in DOMAIN trace' :
             trace'[i][2] \in {78, 79} /\ trace'[i][1] \in {"R", "W"}
       /\ Len(trace') % 12 = 0
       /\ (lastOp' = "readStatus" /\ fc.winring_init_ok)
            => /\ \A k \in 0..112 :
                     ExactTransaction(trace', k, "R", StatusOrder(k))
               /\ Count([i \in DOMAIN trace' |-> trace'[i][1]], "R") = 113
       /\ (lastOp' = "writeConfig" /\ ret')
            => /\ \A k \in 0..99 :
                     ExactTransaction(trace', k, "W",
                         ConfigTableWrites[(k \div TableSize) + 1][1]
                            + (k % TableSize))
               /\ \A k \in 100..((Len(trace') \div 12) - 1) :
                     ExactTransaction(trace', k, ConfigKind(k),
                                      BlockAddress(trace', k))
               /\ Count([i \in DOMAIN trace' |-> trace'[i][1]], "R") = 3
       /\ (lastOp' \in {"initialize", "deinitialize"}) => trace' = <<>>]_vars

\* A writeConfig has read 30 at 0xC5FC (sent as 0xC5 and 0xFC) with eleven
\* port writes and one port read, and written it with twelve port writes.
ExactPortTraceSeen ==
    /\ lastOp = "writeConfig" /\ ret
    /\ trace[1204] = <<"W", 79, 197>> /\ trace[1208] = <<"W", 79, 252>>
    /\ trace[1212] = <<"R", 79, 30>>
    /\ trace[1224] = <<"W", 79, 30>>

\* C30: after a writeConfig that succeeds, on an EC nobody else writes, the
\* target duty of fan 1 (0xC5E4) holds the byte of the fan 1 target curve
\* value (0xC5FC) and the target duty of fan 2 (0xC5E5) that of the fan 2
\* target curve value (0xC5FD); writeConfig writes neither target curve value
\* register, which hold what they held before.
TargetDutyLatch ==
    [][(lastOp' = "writeConfig" /\ ret')
          => /\ FAN1_TARGET_DUTY = 50660 /\ FAN2_TARGET_DUTY = 50661
             /\ FAN1_TARGET_CURVE_VAL = 50684 /\ FAN2_TARGET_CURVE_VAL = 50685
             /\ MemGet(ec'.mem, FAN1_TARGET_DUTY)
                   = MemGet(ec'.mem, FAN1_TARGET_CURVE_VAL)
             /\ MemGet(ec'.mem, FAN2_TARGET_DUTY)
                   = MemGet(ec'.mem, FAN2_TARGET_CURVE_VAL)
             /\ MemGet(ec'.mem, FAN1_TARGET_CURVE_VAL)
                   = MemGet(ec.mem, FAN1_TARGET_CURVE_VAL)
             /\ MemGet(ec'.mem, FAN2_TARGET_CURVE_VAL)
                   = MemGet(ec.mem, FAN2_TARGET_CURVE_VAL)
             /\ WrittenAddresses(trace')
                   \cap {FAN1_TARGET_CURVE_VAL, FAN2_TARGET_CURVE_VAL} = {}
             /\ {FAN1_TARGET_DUTY, FAN2_TARGET_DUTY}
                   \subseteq WrittenAddresses(trace')]_vars

\* A writeConfig has left 30 in the fan 1 and 45 in the fan 2 target duty,
\* the target curve values of the EC.
TargetDutyLatchSeen ==
    /\ lastOp = "writeConfig" /\ ret
    /\ MemGet(ec.mem, FAN1_TARGET_DUTY) = 30
    /\ MemGet(ec.mem, FAN2_TARGET_DUTY) = 45
    /\ MemGet(ec.mem, FAN1_TARGET_CURVE_VAL) = 30
    /\ MemGet(ec.mem, FAN2_TARGET_CURVE_VAL) = 45

-----------------------------------------------------------------------------
(* The last error after a success *)

\* The byte the read of the current breakpoint index returned in the trace tr
\* of a writeConfig that ran to its end: the 105th transaction.
IndexRead(tr) == tr[12 * 104 + 12][3]

\* C31: a readStatus that returns success leaves the last error empty; a
\* writeConfig that returns success leaves it non-empty exactly when the
\* current breakpoint index it read was 10 or more, and then it is the
\* warning of that call; the message an earlier operation left is gone.
LastErrorOnSuccess ==
    [][/\ (lastOp' = "readStatus" /\ ret') => fc'.lastError = ""
       /\ (lastOp' = "writeConfig" /\ ret')
            => /\ Len(trace') >= 12 * 105
               /\ BlockIs(trace', 104, "R", FAN_CUR_POINT)
               /\ IndexRead(trace') = MemGet(ec.mem, FAN_CUR_POINT)
               /\ (fc'.lastError # "") <=> (IndexRead(trace') >= 10)
               /\ fc'.lastError \in {"", WarnDecIndex}]_vars

\* A writeConfig has succeeded with the index 10 read and has left the
\* warning, not the empty string.
LastErrorOnSuccessSeen ==
    /\ lastOp = "writeConfig" /\ ret
    /\ Len(trace) = 12 * 105
    /\ IndexRead(trace) = 10
    /\ fc.lastError = WarnDecIndex
    /\ fc.lastError # ""

-----------------------------------------------------------------------------
(* readStatus and the EC memory *)

\* The positions of the trace tr at which a byte goes to an EC address: a
\* write to the data port with the data register (0x12) selected.
DataTransfers(tr) ==
    {i \in 4..Len(tr) : /\ tr[i][1] = "W" /\ tr[i][2] = EC_DATA_PORT
                        /\ tr[i - 1] = <<"W", EC_ADDR_PORT, 47>>
                        /\ tr[i - 2] = <<"W", EC_DATA_PORT, 18>>
                        /\ tr[i - 3] = <<"W", EC_ADDR_PORT, 46>>}

\* C32: every transaction of readStatus is a read: none of its port writes
\* sends a byte to an EC address, so the EC memory after a readStatus is the
\* memory before it, and a readStatus that follows a readStatus returns the
\* same snapshot.
ReadStatusKeepsMemory ==
    [][(lastOp' = "readStatus")
          => /\ DataTransfers(trace') = {}
             /\ WrittenAddresses(trace') = {}
             /\ \A k \in 0..((Len(trace') \div 12) - 1) : trace'[12 * k + 12][1] = "R"
             /\ ec'.mem = ec.mem
             /\ (lastOp = "readStatus" /\ ret /\ ret')
                   => statusData' = statusData]_vars

\* A readStatus has read its 113 registers, the fan 1 target curve value 30
\* among them, and the memory still holds what it returned.
ReadStatusKeepsMemorySeen ==
    /\ lastOp = "readStatus" /\ ret
    /\ Len(trace) = 12 * 113
    /\ statusData.fan1_target_curve_val = 30
    /\ MemGet(ec.mem, FAN1_TARGET_CURVE_VAL) = 30
    /\ statusData.fan1_speed = 2600
    /\ MemGet(ec.mem, FAN1_RPM_LSB) + 256 * MemGet(ec.mem, FAN1_RPM_MSB) = 2600

-----------------------------------------------------------------------------
(* readStatus while the EC firmware counts the fan revolutions: the two    *)
(* bytes of a counter are read in two transactions, and the firmware may   *)
(* store a new count between them.                                         *)

\* The counts the firmware stores.
RpmValues == {255, 256, 65535}

\* The 16-bit count the EC memory mem holds in the registers lsb and msb.
Counter(mem, lsb, msb) == MemGet(mem, msb) * 256 + MemGet(mem, lsb)

\* The world of an operation under way: the port calls made so far are kept.
WorldSoFar == [World EXCEPT !.trace = trace]

\* readStatus up to its try block: the initialized check and setError("").
SpeedReadBegin ==
    /\ ~reader.busy
    /\ fc.winring_init_ok
    /\ reader' = [busy |-> TRUE, i |-> 0, changes |-> 0, before |-> <<>>,
                  held |-> NoneRead, after |-> <<>>]
    /\ Commit(setError(World, ""), "readStatus", FALSE)
    /\ statusData' = FanStatusData_ctor
    /\ UNCHANGED <<configData, ecAddr, ecData, ecBuffer, threads, gui,
                   wrapperUse, call>>

\* One of the four reads fan1_low, fan1_high, fan2_low, fan2_high.  The count
\* the EC holds for that fan at this moment is noted.
SpeedReadByte ==
    /\ reader.busy
    /\ reader.i < 4
    /\ \E st \in {StatusReadRange([val |-> reader.held, w |-> WorldSoFar],
                                  reader.i + 1, reader.i + 1)} :
         /\ Commit(st.w, "readStatus", FALSE)
         /\ reader' = [reader EXCEPT
                          !.i = @ + 1,
                          !.held = st.val,
                          !.before = Append(@,
                              IF reader.i < 2
                              THEN Counter(ec.mem, FAN1_RPM_LSB, FAN1_RPM_MSB)
                              ELSE Counter(ec.mem, FAN2_RPM_LSB, FAN2_RPM_MSB))]
    /\ UNCHANGED <<statusData, configData, ecAddr, ecData, ecBuffer, threads,
                   gui, wrapperUse, call>>

\* The rest of readStatus: the speeds and percentages, the other reads, and
\* return true.
SpeedReadReturn ==
    /\ reader.busy
    /\ reader.i = 4
    /\ \E r \in {readStatus_assigned(
                    StatusReadRange([val |-> reader.held, w |-> WorldSoFar],
                                    5, Len(StatusReads)))} :
         /\ Commit(r.w, "readStatus", r.ret)
         /\ statusData' = r.sd
    /\ reader' = [reader EXCEPT
                     !.busy = FALSE,
                     !.after = <<Counter(ec.mem, FAN1_RPM_LSB, FAN1_RPM_MSB),
                                 Counter(ec.mem, FAN2_RPM_LSB, FAN2_RPM_MSB)>>]
    /\ UNCHANGED <<configData, ecAddr, ecData, ecBuffer, threads, gui,
                   wrapperUse, call>>

\* The firmware stores a new count for both fans, between two transactions
\* of readStatus or while none is under way.
CounterChange ==
    /\ reader.busy => reader.changes < MaxChanges
    /\ \E v \in RpmValues :
         ec' = [ec EXCEPT !.mem =
                   MemSetAll(@, << <<FAN1_RPM_LSB, v % 256>>,
                                   <<FAN1_RPM_MSB, v \div 256>>,
                                   <<FAN2_RPM_LSB, v % 256>>,
                                   <<FAN2_RPM_MSB, v \div 256>> >>)]
    /\ reader' = IF reader.busy THEN [reader EXCEPT !.changes = @ + 1]
                 ELSE reader
    /\ UNCHANGED <<fc, wr, proc, trace, calls, stale, lastOp, ret, statusData,
                   configData, ecAddr, ecData, ecBuffer, threads, gui,
                   wrapperUse, call>>

NextSpeed ==
    SpeedReadBegin \/ SpeedReadByte \/ SpeedReadReturn \/ CounterChange

SpecSpeed == InitEc /\ [][NextSpeed]_vars

\* C33: readStatus reads the count of each fan in two transactions, the low
\* byte first (0xC5E0, 0xC5E1, then 0xC5E2, 0xC5E3), and the speed is
\* 256 * high + low, in 0..65535; the low byte is the one of the count held
\* when it was read and the high byte the one of the count held when it was
\* read, so a count stored between the two gives a speed of the old low and
\* the new high byte.
SpeedComposition ==
    [][(reader.busy /\ ~reader'.busy)
          => /\ lastOp' = "readStatus" /\ ret'
             /\ FAN1_RPM_LSB = 50656 /\ FAN2_RPM_LSB = 50658
             /\ BlockIs(trace', 0, "R", FAN1_RPM_LSB)
             /\ BlockIs(trace', 1, "R", FAN1_RPM_LSB + 1)
             /\ BlockIs(trace', 2, "R", FAN2_RPM_LSB)
             /\ BlockIs(trace', 3, "R", FAN2_RPM_LSB + 1)
             /\ statusData'.fan1_speed = 256 * trace'[24][3] + trace'[12][3]
             /\ statusData'.fan2_speed = 256 * trace'[48][3] + trace'[36][3]
             /\ statusData'.fan1_speed \in 0..65535
             /\ statusData'.fan2_speed \in 0..65535
             /\ statusData'.fan1_speed
                   = 256 * (reader.before[2] \div 256) + (reader.before[1] % 256)
             /\ statusData'.fan2_speed
                   = 256 * (reader.before[4] \div 256) + (reader.before[3] % 256)
             /\ (reader.before[1] = reader.before[2])
                   => statusData'.fan1_speed = reader.before[1]]_vars

\* The count went from 255 to 256 between the two reads of fan 1, and
\* readStatus returned the speed 511.
SpeedCompositionSeen ==
    /\ lastOp = "readStatus" /\ ret /\ ~reader.busy
    /\ Len(reader.before) = 4
    /\ reader.before[1] = 255 /\ reader.before[2] = 256
    /\ statusData.fan1_speed = 511

-----------------------------------------------------------------------------
(* The order of the checks of writeConfig *)

\* C34: writeConfig makes its initialized check before it validates the
\* tables: with a table of a length other than 10 it fails with the
\* not-initialized message on a controller that is not initialized, and on
\* an initialized one with the invalid-configuration message alone, whatever
\* message (a warning, an earlier rejection) the last error held before.
CheckPrecedence ==
    [][(lastOp' = "writeConfig" /\ ~SizesValid(configData'))
          => /\ ~ret'
             /\ trace' = <<>>
             /\ fc'.winring_init_ok = fc.winring_init_ok
             /\ fc'.lastError = IF fc.winring_init_ok THEN ErrInvalidConfig
                                ELSE ErrWriteNotInit
             /\ ErrInvalidConfig # ErrWriteNotInit]_vars

\* writeConfig with a table of a wrong length has failed on a controller
\* that is not initialized, with the not-initialized message.
CheckPrecedenceSeen ==
    /\ lastOp = "writeConfig" /\ ~ret
    /\ ~fc.winring_init_ok
    /\ ~SizesValid(configData)
    /\ \E t \in TableNames : Len(configData[t]) # 10
    /\ fc.lastError = ErrWriteNotInit

-----------------------------------------------------------------------------
(* The tables of a snapshot, written back as a configuration *)

\* currentConfig.fan1_curve = currentStatus.fan1_curve; ... : the
\* configuration that takes its ten tables from the snapshot sd.
CopiedConfig(sd) == [t \in TableNames |-> sd.tables[t]]

\* writeConfig with the tables of the snapshot held: the one readStatus
\* filled, or a default-constructed one.
WriteStatusBack ==
    /\ \E cfg \in {CopiedConfig(statusData)} :
         \E r \in {writeConfig(World, cfg)} :
           Commit(r.w, "writeConfig", r.ret) /\ configData' = cfg
    /\ statusData' = FanStatusData_ctor
    /\ UNCHANGED <<ecAddr, ecData, ecBuffer, threads, reader, gui, wrapperUse, call>>

NextShape == Initialize \/ Deinitialize \/ ReadStatus \/ WriteStatusBack

SpecShape == InitReads /\ [][NextShape]_vars

\* C35: the ten tables of a snapshot a successful readStatus filled, of a
\* default-constructed FanStatusData and of a default-constructed
\* FanConfigData have length 10, and writeConfig accepts the configuration
\* made of the ten tables of a snapshot: it does not fail its size
\* validation.
SnapshotShape ==
    /\ [](/\ \A t \in TableNames : Len(statusData.tables[t]) = 10
          /\ \A t \in TableNames : Len(FanStatusData_ctor.tables[t]) = 10
          /\ \A t \in TableNames : Len(FanConfigData_ctor[t]) = 10
          /\ DOMAIN FanConfigData_ctor = DOMAIN statusData.tables
          /\ Cardinality(TableNames) = 10)
    /\ [][(lastOp' = "writeConfig")
             => /\ configData' = CopiedConfig(statusData)
                /\ SizesValid(configData')
                /\ fc'.lastError # ErrInvalidConfig
                /\ fc.winring_init_ok => ret']_vars

\* The tables readStatus read, every byte of them 255, have been written
\* back and accepted.
SnapshotShapeSeen ==
    /\ lastOp = "writeConfig" /\ ret
    /\ \A t \in TableNames : configData[t] = [k \in 1..10 |-> 255]
    /\ Len(trace) >= 12 * 105

-----------------------------------------------------------------------------
(* "Apply Config" over an EC whose firmware clamps what it is given *)

\* The limits the firmware clamps the fan 1 duties to: 45, below some of the
\* programmed duties, and 100, above all of them.
ClampLimits == {45, 100}

ApplyConfigClamped == \E limit \in ClampLimits : ApplyConfigOver(limit)

\* The fan 1 curve is edited and applied.
NextApply == DragPointFan1 \/ ApplyConfigClamped

SpecApply == InitEditor /\ [][NextApply]_vars

\* The base register of the table t.
BaseOf(t) ==
    ConfigTableWrites[CHOOSE n \in 1..Len(ConfigTableWrites) :
                          ConfigTableWrites[n][2] = t][1]

\* In the EC memory mem the table t holds the bytes of cfg.
ReadsBackAs(mem, cfg, t) == cfg[t] = Snapshot(mem, BaseOf(t), TableSize)

\* C36: "Apply Config" replaces currentConfig by the edited configuration
\* and the current status by the snapshot read back only when writeConfig
\* returned success, the readStatus after it was made, and the six compared
\* tables read back as written; otherwise currentConfig and the current
\* status are left as they were.
VerifyBeforeCommit ==
    [][(lastOp' = "writeConfig")
          => IF /\ ret'
                /\ Len(trace') >= 12 * (105 + 113)
                /\ \A t \in {"fan1_curve", "fan2_curve", "cpu_upper_temp",
                             "cpu_lower_temp", "gpu_upper_temp", "gpu_lower_temp"} :
                       ReadsBackAs(ec'.mem, configData', t)
             THEN /\ gui'.currentConfig = configData'
                  /\ gui'.currentConfig = gui'.editableConfig
                  /\ \A t \in TableNames :
                         ReadsBackAs(ec'.mem, statusData'.tables, t)
             ELSE /\ gui'.currentConfig = gui.currentConfig
                  /\ statusData' = statusData]_vars

\* writeConfig succeeded, the fan 1 duties read back clamped, and
\* currentConfig is still the configuration loaded at the start, not the
\* edited one.
VerifyBeforeCommitSeen ==
    /\ lastOp = "writeConfig" /\ ret
    /\ ~ReadsBackAs(ec.mem, configData, "fan1_curve")
    /\ gui.statusMessage = "Config written, but VERIFICATION FAILED"
    /\ gui.currentConfig # gui.editableConfig
    /\ gui.currentConfig = [t \in TableNames |-> ProgrammedTable(t)]
    /\ gui.drags > 0

-----------------------------------------------------------------------------
(* The conversions of the curve editor, on the vectors themselves: the     *)
(* points are a vector that std::sort has ordered by temperature, points   *)
(* of one temperature in any order.                                        *)

\* The orders std::sort(points.begin(), points.end()) may leave the points
\* of the set S in: ascending by temp (operator<), equal temps either way.
RECURSIVE SortedOrders(_)
SortedOrders(S) ==
    IF S = {} THEN {<<>>}
    ELSE UNION {{<<p>> \o rest : rest \in SortedOrders(S \ {p})} :
                   p \in {q \in S : \A o \in S : q.temp <= o.temp}}

\* An ExtractLoop() that stores each point at its position in the sorted
\* vector, not at its original_index.
RECURSIVE ExtractLoop_byPosition(_, _, _)
ExtractLoop_byPosition(points, k, out) ==
    IF k > Len(points) THEN out
    ELSE ExtractLoop_byPosition(points, k + 1,
             IF k - 1 < Len(out.temps)
             THEN [temps |-> [out.temps EXCEPT ![k] = points[k].temp],
                   curve_points_scaled |->
                       [out.curve_points_scaled EXCEPT ![k] = points[k].rpm \div 100]]
             ELSE out)

\* for (const auto& p : points) of extractDataFromPlotPoints, from the k-th
\* point on; out holds temp_temps and temp_curve_points.
RECURSIVE ExtractLoop(_, _, _)
ExtractLoop(points, k, out) ==
    IF k > Len(points) THEN out
    ELSE ExtractLoop(points, k + 1,
             IF points[k].original_index < Len(out.temps)
             THEN [temps |->
                       [out.temps EXCEPT ![points[k].original_index + 1] =
                                             points[k].temp],
                   curve_points_scaled |->
                       [out.curve_points_scaled EXCEPT
                            ![points[k].original_index + 1] = points[k].rpm \div 100]]
             ELSE out)

\* Temperature tables: ascending, descending, with three and with two points
\* of one temperature, and the two ends of the byte range.
TempTables ==
    {[i \in 1..TableSize |-> 35 + 5 * i],
     [i \in 1..TableSize |-> 95 - 5 * i],
     [i \in 1..TableSize |-> IF i \in {2, 5, 9} THEN 50 ELSE 100 - 4 * i],
     [i \in 1..TableSize |-> IF i \in {1, 10} THEN 255 ELSE IF i = 4 THEN 0
                             ELSE 20 * i]}

\* Duty tables: between them every byte 0 .. 255.
CurveTables ==
    {[i \in 1..TableSize |-> (10 * k + i - 1) % 256] : k \in 0..25}

\* Vectors of int outside and at the ends of the byte range.
IntTables ==
    {[i \in 1..TableSize |-> IF i % 2 = 0 THEN -i ELSE 250 + i],
     [i \in 1..TableSize |-> IF i < 4 THEN 0 ELSE IF i < 8 THEN 255 ELSE 256]}

InitConvert ==
    \E t \in TempTables, c \in CurveTables, n \in IntTables :
        /\ fc = FanController_ctor /\ wr = WrapperGlobals
        /\ proc = [wrapperRef |-> 0, driverRef |-> 0, olsOpen |-> FALSE]
        /\ ec = [sel |-> 0, reg |-> 0, hi |-> 0, lo |-> 0, mem |-> EcPowerOnMemory]
        /\ trace = <<>> /\ calls = <<>> /\ stale = FALSE
        /\ lastOp = "main" /\ ret = TRUE
        /\ statusData = FanStatusData_ctor
        /\ configData = FanConfigData_ctor
        /\ ecAddr = 0 /\ ecData = 0 /\ ecBuffer = <<>>
        /\ threads = [x \in {1, 2} |-> [op |-> "idle", done |-> 0, pc |-> 0,
                                        mixed |-> FALSE, wanted |-> 0,
                                        landed |-> 0, got |-> 0,
                                        wasMixed |-> FALSE]]
        /\ reader = [busy |-> FALSE, i |-> 0, changes |-> 0,
                     before |-> <<>>, held |-> <<>>, after |-> <<>>]
        /\ gui = [drags |-> 0, step |-> "tables", temps |-> t, curve |-> c,
                  ints |-> n]
        /\ wrapperUse = NoUse
        /\ call = NoCall

\* createPlotPoints(convertVecU8ToVecInt(temps), convertVecU8ToVecInt(curve))
CreatePoints ==
    /\ gui.step = "tables"
    /\ \E points \in SortedOrders(createPlotPoints(convertVecU8ToVecInt(gui.temps),
                                                   convertVecU8ToVecInt(gui.curve))) :
         gui' = [drags |-> 0, step |-> "points", temps |-> gui.temps,
                 curve |-> gui.curve, ints |-> gui.ints, points |-> points]
    /\ lastOp' = "createPlotPoints"
    /\ UNCHANGED <<fc, wr, proc, ec, trace, calls, stale, ret, statusData,
                   configData, ecAddr, ecData, ecBuffer, threads, reader,
                   wrapperUse, call>>

\* extractDataFromPlotPoints(points, temps_int, curve_int), the two vectors
\* of the size of the tables
ExtractData ==
    /\ gui.step = "points"
    /\ \E out \in {ExtractLoop(gui.points, 1,
                               [temps |-> ZeroVec(Len(gui.temps)),
                                curve_points_scaled |-> ZeroVec(Len(gui.curve))])} :
         gui' = [drags |-> 0, step |-> "extracted", temps |-> gui.temps,
                 curve |-> gui.curve, ints |-> gui.ints, points |-> gui.points,
                 temps_int |-> out.temps,
                 curve_int |-> out.curve_points_scaled]
    /\ lastOp' = "extractDataFromPlotPoints"
    /\ UNCHANGED <<fc, wr, proc, ec, trace, calls, stale, ret, statusData,
                   configData, ecAddr, ecData, ecBuffer, threads, reader,
                   wrapperUse, call>>

\* convertVecIntToVecU8 of the extracted vectors, of a vector of any int,
\* and of convertVecU8ToVecInt of a table
ConvertBack ==
    /\ gui.step = "extracted"
    /\ gui' = [drags |-> 0, step |-> "converted", temps |-> gui.temps,
               curve |-> gui.curve, ints |-> gui.ints, points |-> gui.points,
               temps_int |-> gui.temps_int, curve_int |-> gui.curve_int,
               temps_u8 |-> convertVecIntToVecU8(gui.temps_int),
               curve_u8 |-> convertVecIntToVecU8(gui.curve_int),
               ints_u8 |-> convertVecIntToVecU8(gui.ints),
               again |-> convertVecIntToVecU8(convertVecU8ToVecInt(gui.curve))]
    /\ lastOp' = "convertVecIntToVecU8"
    /\ UNCHANGED <<fc, wr, proc, ec, trace, calls, stale, ret, statusData,
                   configData, ecAddr, ecData, ecBuffer, threads, reader,
                   wrapperUse, call>>

NextConvert == CreatePoints \/ ExtractData \/ ConvertBack

SpecConvert == InitConvert /\ [][NextConvert]_vars

\* C37: for tables of ten bytes, createPlotPoints, extractDataFromPlotPoints
\* and convertVecIntToVecU8 give back the temperatures and the duties at
\* their indices, whichever order the sort has left the points in (points of
\* one temperature included); convertVecIntToVecU8 brings every int into
\* 0..255 (0 below, 255 above, the value itself between), and applied to
\* convertVecU8ToVecInt of a table it gives the table.
ConversionRoundTrip ==
    /\ (gui.step \in {"points", "extracted", "converted"})
          => /\ Len(gui.points) = TableSize
             /\ \A k \in 1..(TableSize - 1) : gui.points[k].temp <= gui.points[k + 1].temp
             /\ {gui.points[k].original_index : k \in 1..TableSize} = 0..(TableSize - 1)
    /\ (gui.step = "converted")
          => /\ gui.temps_u8 = gui.temps
             /\ gui.curve_u8 = gui.curve
             /\ gui.again = gui.curve
             /\ Len(gui.ints_u8) = Len(gui.ints)
             /\ \A i \in 1..Len(gui.ints) :
                    /\ gui.ints_u8[i] \in 0..255
                    /\ gui.ints[i] < 0 => gui.ints_u8[i] = 0
                    /\ gui.ints[i] > 255 => gui.ints_u8[i] = 255
                    /\ gui.ints[i] \in 0..255 => gui.ints_u8[i] = gui.ints[i]

\* The tables have come back from points that the sort had reordered, two
\* points of one temperature standing against the order of their indices.
ConversionRoundTripSeen ==
    /\ gui.step = "converted"
    /\ gui.temps_u8 = gui.temps /\ gui.curve_u8 = gui.curve
    /\ gui.points[1].original_index # 0
    /\ \E k \in 1..(TableSize - 1) :
          /\ gui.points[k].temp = gui.points[k + 1].temp
          /\ gui.points[k].original_index > gui.points[k + 1].original_index
    /\ \E i \in 1..TableSize : gui.curve[i] = 255

-----------------------------------------------------------------------------
(* The layout of the registers *)

\* The addresses of the table at base.
TableRegion(base) == {base + i : i \in 0..(TableSize - 1)}

\* The addresses of the transactions lo .. hi of the trace tr.
BlockAddresses(tr, lo, hi) == {BlockAddress(tr, k) : k \in lo..hi}

\* The single registers writeConfig reads or writes, and the fan counters.
SingleRegisters ==
    {FAN1_TARGET_DUTY, FAN2_TARGET_DUTY, FAN1_TARGET_CURVE_VAL,
     FAN2_TARGET_CURVE_VAL, FAN_CUR_POINT, FAN1_CUR_ACC, FAN1_CUR_DEC,
     FAN2_CUR_ACC, FAN2_CUR_DEC, FAN1_RPM_LSB, FAN1_RPM_MSB, FAN2_RPM_LSB,
     FAN2_RPM_MSB}

\* C38: the ten tables readStatus and writeConfig address, of ten bytes each
\* at 0xC540, 0xC550, .. 0xC5D0, share no address with each other, with the
\* single registers writeConfig reads or writes (0xC5E4, 0xC5E5, 0xC5FC,
\* 0xC5FD, 0xC534, 0xC3DC..0xC3DF) or with the fan counters; no address of a
\* table passes 0xFFFF; and readStatus reads each table at the base
\* writeConfig writes the table of that name to.
LayoutDisjoint ==
    [][/\ (lastOp' = "writeConfig" /\ ret')
            => /\ \A n \in 1..10 :
                     /\ BlockAddresses(trace', 10 * (n - 1), 10 * n - 1)
                           = TableRegion(ConfigTableWrites[n][1])
                     /\ ConfigTableWrites[n][1] + TableSize - 1 <= 65535
               /\ {ConfigTableWrites[n][1] : n \in 1..10}
                     = {50496 + 16 * k : k \in 0..9}
               /\ Cardinality(BlockAddresses(trace', 0, 99)) = 100
               /\ BlockAddresses(trace', 0, 99)
                     \cap BlockAddresses(trace', 100, (Len(trace') \div 12) - 1) = {}
               /\ BlockAddresses(trace', 100, (Len(trace') \div 12) - 1)
                     \subseteq SingleRegisters
               /\ BlockAddresses(trace', 0, 99) \cap SingleRegisters = {}
               /\ {50660, 50661, 50684, 50685, 50484, 50140, 50141, 50142, 50143}
                     \subseteq SingleRegisters
       /\ (lastOp' = "readStatus" /\ ret')
            => /\ \A j \in 1..10 :
                     BlockAddresses(trace', 4 + 10 * (j - 1), 3 + 10 * j)
                        = TableRegion(BaseOf(StatusReads[4 + j][1]))
               /\ BlockAddresses(trace', 0, 3)
                     = {FAN1_RPM_LSB, FAN1_RPM_MSB, FAN2_RPM_LSB, FAN2_RPM_MSB}
               /\ BlockAddresses(trace', 4, 103)
                     \cap (BlockAddresses(trace', 0, 3)
                           \cup BlockAddresses(trace', 104, 112)) = {}]_vars

\* A writeConfig has written its hundred table bytes to a hundred addresses
\* and its six single registers beside them.
LayoutDisjointSeen ==
    /\ lastOp = "writeConfig" /\ ret
    /\ Len(trace) = 12 * 109
    /\ Cardinality(BlockAddresses(trace, 0, 99)) = 100
    /\ BlockAddress(trace, 99) = FAN_DEC_BASE + 9
    /\ Cardinality(BlockAddresses(trace, 100, 108)) = 9

============================================================================
